---- MODULE Spec2Model ----
(***************************************************************************)
(* A model of the quasar-ecs world engine: the generational entity         *)
(* allocator, the component and bundle registries, the archetype graph,    *)
(* the column store, and the insert / remove / take engine that moves an   *)
(* entity between archetypes.                                              *)
(*                                                                         *)
(* Rust indices are 0-based, TLA+ sequences are 1-based: element i of a    *)
(* Vec v is v[i + 1].  An Option is a record with a field "some".  Every   *)
(* operation that can panic returns a record with a field "panic" that     *)
(* holds the panic message, or "" when it returned normally.               *)
(***************************************************************************)
EXTENDS Integers, Sequences, FiniteSets, TLC

\* ---------------------------------------------------------------- bounds

MaxEntities == 3
MaxGeneration == 3
MaxValue == 2
MaxFreeList == 2
MaxSlots == 2
MaxLen == 6
MaxBundles == 3
MaxThreads == 2
UsizeMax == 3
MaxKey == 2
MaxSliceLen == 5
MaxId == 3

\* ------------------------------------------------------ program constants

\* u32::MAX, the sentinel of every INVALID id, row and generation.  The
\* 32-bit width is narrowed to the largest integer the checker represents;
\* the model only compares it, it never computes with it.
U32Max == 2147483647
\* EntityGeneration::NEW
GenerationNew == 1

\* ------------------------------------------------------------- Option<T>

\* Let(v, F) is F applied to the value of v, v computed once.
Only(S) == CHOOSE x \in S : TRUE
Let(v, F(_)) == Only({F(x) : x \in {v}})

NoneV == [some |-> FALSE]
Some(x) == [some |-> TRUE, v |-> x]

\* v[i] for a Vec v and a 0-based index i
At(v, i) == v[i + 1]
InRange(v, i) == i >= 0 /\ i < Len(v)
Last(v) == v[Len(v)]
Front(v) == SubSeq(v, 1, Len(v) - 1)

\* Vec::remove(i): the elements after i move down by one
ShiftRemove(v, i) == SubSeq(v, 1, i) \o SubSeq(v, i + 2, Len(v))

\* Vec::swap_remove(i): the last element takes the place of element i
SwapRemove(v, i) ==
    IF i = Len(v) - 1 THEN Front(v)
    ELSE [Front(v) EXCEPT ![i + 1] = Last(v)]

\* ------------------------------------------------------------ the state

VARIABLES
    entities,        \* World::entities : [meta, free_list]
    components,      \* World::components : the registered component types, by id
    bundles,         \* World::bundles : [bundle_infos, by_type_id]
    archetypes,      \* World::archetypes : [archetypes, by_components]
    tables,          \* World::tables : [tables, by_components]
    cur,             \* the EntityWorldMut the caller holds, if any
    issued,          \* every Entity handle the allocator has returned
    freed,           \* every Entity handle passed to a successful free
    spawned,         \* what each spawn(bundle) call was given, by entity
    last,            \* the last call and what it returned
    aborted,         \* the panic message once an operation has aborted
    dropped,         \* the cells whose drop function has run, in order
    origin,          \* the location the handle cached before the last call on it
    overflow_checks, \* the build: TRUE when integer overflow panics
    world_ids,       \* the WorldId counter of the process, the ids of the worlds
                     \* created, and the threads creating worlds
    sparse           \* a SparseMap of its own, the map it is compared with, and
                     \* the panic of the last call on it

vars == <<entities, components, bundles, archetypes, tables, cur, issued,
          freed, spawned, last, aborted, dropped, origin, overflow_checks, world_ids, sparse>>

\* ----------------------------------------------------------- SparseMap

SparseMap_with_capacity == [values |-> <<>>, len |-> 0]

SparseMap_get(map, index) ==
    IF InRange(map.values, index) THEN At(map.values, index) ELSE NoneV

SparseMap_contains_key(map, index) == SparseMap_get(map, index).some

\* VacantEntry::insert: resize_with(index) gives the Vec length index, so
\* the store into values[index] that follows is out of bounds unless the
\* slot existed before.
VacantEntry_insert(map, index, value) ==
    LET grown == IF index > Len(map.values)
                 THEN map.values \o [i \in 1..(index - Len(map.values)) |-> NoneV]
                 ELSE map.values
    IN  IF ~InRange(grown, index)
        THEN [panic |-> "index out of bounds", old |-> NoneV,
              map |-> [map EXCEPT !.values = grown]]
        ELSE [panic |-> "", old |-> NoneV,
              map |-> [values |-> [grown EXCEPT ![index + 1] = Some(value)],
                       len |-> map.len + 1]]

OccupiedEntry_insert(map, index, value) ==
    [panic |-> "", old |-> At(map.values, index),
     map |-> [map EXCEPT !.values[index + 1] = Some(value)]]

\* SparseMap::insert == self.entry(key).insert(value).0
SparseMap_insert(map, index, value) ==
    IF SparseMap_contains_key(map, index)
    THEN OccupiedEntry_insert(map, index, value)
    ELSE VacantEntry_insert(map, index, value)

\* Keys / Iter / IterMut, run to the end: every slot visited decrements the
\* remaining-length counter, also an absent one, so the counter underflows
\* as soon as the map has an absent slot.
SparseMap_keys(map, checks) ==
    [panic |-> IF checks /\ Len(map.values) > map.len
               THEN "attempt to subtract with overflow" ELSE "",
     keys |-> SelectSeq([i \in 1..Len(map.values) |-> i - 1],
                        LAMBDA k : At(map.values, k).some)]

\* OccupiedEntry::remove / Entry::remove
SparseMap_remove(map, index) ==
    IF SparseMap_contains_key(map, index)
    THEN [old |-> At(map.values, index),
          map |-> [values |-> [map.values EXCEPT ![index + 1] = NoneV],
                   len |-> map.len - 1]]
    ELSE [old |-> NoneV, map |-> map]

\* Keys / Iter / Values: the iterator is the position in the backing array
\* and the remaining-length counter.  next() decrements the counter for
\* every slot it visits, present or absent; the decrement of 0 panics in
\* a build with overflow checks and wraps around otherwise.
Iter_new(map) == [index |-> 0, len |-> map.len, underflow |-> FALSE]

RECURSIVE Iter_next(_, _, _)
Iter_next(values, iter, checks) ==
    IF ~InRange(values, iter.index)
    THEN [panic |-> "", item |-> NoneV, iter |-> iter]
    ELSE IF iter.len = 0 /\ checks
    THEN [panic |-> "attempt to subtract with overflow", item |-> NoneV, iter |-> iter]
    ELSE Let([index |-> iter.index + 1,
              len |-> (iter.len + UsizeMax) % (UsizeMax + 1),
              underflow |-> iter.underflow \/ iter.len = 0], LAMBDA advanced :
         IF At(values, iter.index).some
         THEN [panic |-> "", iter |-> advanced,
               item |-> Some(<<iter.index, At(values, iter.index).v>>)]
         ELSE Iter_next(values, advanced, checks))

\* The iterator run until next() returns None: the items it yields.
RECURSIVE Iter_collect(_, _, _, _)
Iter_collect(values, iter, checks, items) ==
    Let(Iter_next(values, iter, checks), LAMBDA n :
        IF n.panic # "" \/ ~n.item.some
        THEN [panic |-> n.panic, items |-> items, underflow |-> n.iter.underflow]
        ELSE Iter_collect(values, n.iter, checks, Append(items, n.item.v)))

\* FromIterator: insert every key of the sequence in turn
RECURSIVE SparseSet_from_iter(_, _)
SparseSet_from_iter(map, keys) ==
    IF keys = <<>> THEN [panic |-> "", map |-> map]
    ELSE LET r == SparseMap_insert(map, Head(keys), TRUE)
         IN  IF r.panic # "" THEN [panic |-> r.panic, map |-> r.map]
             ELSE SparseSet_from_iter(r.map, Tail(keys))

\* ------------------------------------------------------------ Entities

LocationInvalid ==
    [archetype_id |-> U32Max, archetype_row |-> U32Max,
     table_id |-> U32Max, table_row |-> U32Max]

\* EntityLocation::EMPTY: the empty archetype and table, no row in either
LocationEmpty ==
    [archetype_id |-> 0, archetype_row |-> U32Max,
     table_id |-> 0, table_row |-> U32Max]

EntityMetaEmpty == [generation |-> U32Max, location |-> LocationInvalid]

Entity(index, generation) == [index |-> index, generation |-> generation]

Entities_default == [meta |-> <<>>, free_list |-> <<>>]

Entities_clear(ents) == [meta |-> <<>>, free_list |-> <<>>]

Entities_allocate(ents) ==
    IF ents.free_list # <<>>
    THEN LET e == Last(ents.free_list)
         IN  [entity |-> Entity(e.index, e.generation + 1),
              ents |-> [ents EXCEPT !.free_list = Front(ents.free_list)]]
    ELSE [entity |-> Entity(Len(ents.meta), GenerationNew),
          ents |-> [ents EXCEPT !.meta = Append(ents.meta, EntityMetaEmpty)]]

Entities_free(ents, entity) ==
    IF ~InRange(ents.meta, entity.index)
    THEN [panic |-> "index out of bounds", ents |-> ents, pushed |-> FALSE]
    ELSE IF At(ents.meta, entity.index).generation = entity.generation
    THEN [panic |-> "", pushed |-> TRUE,
          ents |-> [meta |-> [ents.meta EXCEPT ![entity.index + 1] = EntityMetaEmpty],
                    free_list |-> Append(ents.free_list, entity)]]
    ELSE IF entity.generation < At(ents.meta, entity.index).generation
    THEN [panic |-> "", ents |-> ents, pushed |-> FALSE]
    ELSE [panic |-> "assertion failed: entity.generation < meta.generation",
          ents |-> ents, pushed |-> FALSE]

Entities_set_location(ents, entity, location) ==
    IF ~InRange(ents.meta, entity.index)
    THEN [panic |-> "index out of bounds", ents |-> ents]
    ELSE [panic |-> "",
          ents |-> [ents EXCEPT !.meta[entity.index + 1] =
                        [generation |-> entity.generation, location |-> location]]]

Entities_get_location(ents, entity) ==
    IF ~InRange(ents.meta, entity.index)
    THEN [panic |-> "", loc |-> NoneV]
    ELSE IF entity.generation = At(ents.meta, entity.index).generation
    THEN [panic |-> "", loc |-> Some(At(ents.meta, entity.index).location)]
    ELSE IF entity.generation < At(ents.meta, entity.index).generation
    THEN [panic |-> "", loc |-> NoneV]
    ELSE [panic |-> "assertion failed: entity.generation < meta.generation",
          loc |-> NoneV]

\* ChangedLocation<T>::apply(&mut Entities): rewrite one field of the
\* entity's stored location ("all" rewrites the whole location).
ChangedLocation_apply(ents, entity, field, value) ==
    IF ~InRange(ents.meta, entity.index)
    THEN [panic |-> "index out of bounds", ents |-> ents]
    ELSE LET old == At(ents.meta, entity.index).location
             new == CASE field = "all" -> value
                      [] field = "table_row" -> [old EXCEPT !.table_row = value]
                      [] field = "archetype_row" -> [old EXCEPT !.archetype_row = value]
         IN  Entities_set_location(ents, entity, new)

\* -------------------------------------------------------- util/mod.rs

\* A swap that leaves the slice alone.
NoSwap(slice, i, j) == slice

Swap(slice, i, j) == [slice EXCEPT ![i + 1] = At(slice, j), ![j + 1] = At(slice, i)]

RECURSIVE partition_dedup_loop(_, _, _, _)
partition_dedup_loop(slice, read, write, remaining) ==
    IF remaining = 0
    THEN [left |-> SubSeq(slice, 1, write),
          right |-> SubSeq(slice, write + 1, Len(slice))]
    ELSE IF At(slice, read) # At(slice, write - 1)
    THEN partition_dedup_loop(IF write # read THEN Swap(slice, write, read) ELSE slice,
                              read + 1, write + 1, remaining - 1)
    ELSE partition_dedup_loop(slice, read + 1, write, remaining - 1)

\* A partition that reports no duplicates.
partition_dedup_none(slice) == [left |-> slice, right |-> <<>>]

partition_dedup(slice) ==
    IF slice = <<>> THEN [left |-> <<>>, right |-> <<>>]
    ELSE partition_dedup_loop(slice, 1, 1, Len(slice) - 1)

\* slice_get_mut_pair on a slice of length n.  split_at_mut(second) panics
\* when second > n; left[first] is out of bounds when first >= second;
\* right[0] is out of bounds when second = n.  The pair is given by the
\* indices of the two elements borrowed.
slice_get_mut_pair(n, first, second) ==
    IF first = second
    THEN [panic |-> IF first < n THEN "" ELSE "index out of bounds",
          ok |-> FALSE, first |-> first, second |-> first]
    ELSE IF second > n THEN [panic |-> "mid > len", ok |-> FALSE,
                             first |-> first, second |-> second]
    ELSE IF first >= second \/ second >= n
    THEN [panic |-> "index out of bounds", ok |-> FALSE,
          first |-> first, second |-> second]
    ELSE [panic |-> "", ok |-> TRUE, first |-> first, second |-> second + 0]

\* The map a SparseMap is compared with: the value of every key, if any.
MapKeys == 0..MaxKey
ReferenceEmpty == [k \in MapKeys |-> NoneV]

\* -------------------------------------------------------------- WorldId

\* usize arithmetic wraps at UsizeMax, the usize::MAX of the model.
\* AtomicUsize::fetch_add adds with wrap-around and returns the value the
\* counter had.
AtomicUsize_fetch_add(counter, val) ==
    [value |-> (counter + val) % (UsizeMax + 1), returned |-> counter]

NonZeroUsize_new(n) == IF n = 0 THEN NoneV ELSE Some(n)

\* The threads that create worlds.  A thread is idle, or holds the value
\* its fetch_add returned, or has panicked.
Threads == 1..MaxThreads
ThreadIdle == [state |-> "idle", value |-> 0]
ThreadFetched(value) == [state |-> "fetched", value |-> value]
ThreadPanicked == [state |-> "WorldId overflow", value |-> 0]

\* ---------------------------------------------------------- Components

\* The component types of the model, and the bundle types built from them.
\* A bundle type is named by the component types it declares, in order.
ComponentTypes == {"A", "B"}
BundleTypes == {<<>>, <<"A">>, <<"B">>, <<"A", "B">>, <<"B", "A">>, <<"A", "A">>}
Values == 1..MaxValue

Components_get_component_id(comps, C) ==
    IF \E i \in 1..Len(comps) : comps[i] = C
    THEN Some((CHOOSE i \in 1..Len(comps) : comps[i] = C) - 1)
    ELSE NoneV

\* A registration that pushes a ComponentInfo on every call.
Components_register_always(comps, C) == Append(comps, C)

Components_register(comps, C) ==
    IF Components_get_component_id(comps, C).some THEN comps ELSE Append(comps, C)

\* B::component_types(RegisterComponents): register every declared type
RECURSIVE RegisterComponents(_, _)
RegisterComponents(comps, B) ==
    IF B = <<>> THEN comps
    ELSE RegisterComponents(Components_register(comps, Head(B)), Tail(B))

\* -------------------------------------------------------------- Bundles

Bundles_default == [bundle_infos |-> <<>>, by_type_id |-> [b \in {} |-> 0]]

NoBundleInfo == [id |-> U32Max, component_ids |-> <<>>]

Bundles_get_mut_or_insert_inner(bndls, comps, B) ==
    IF B \in DOMAIN bndls.by_type_id
    THEN [panic |-> "", bundles |-> bndls, components |-> comps,
          info |-> At(bndls.bundle_infos, bndls.by_type_id[B])]
    ELSE
    Let(RegisterComponents(comps, B), LAMBDA comps2 :
    Let(SortSeq([i \in 1..Len(B) |-> Components_get_component_id(comps2, B[i]).v],
                LAMBDA x, y : x < y), LAMBDA sorted :
    Let(partition_dedup(sorted), LAMBDA pd :
    Let([id |-> Len(bndls.bundle_infos), component_ids |-> pd.left \o pd.right],
        LAMBDA info :
        IF pd.right # <<>>
        THEN [panic |-> "Bundle contains duplicate components",
              bundles |-> bndls, components |-> comps2, info |-> NoBundleInfo]
        ELSE [panic |-> "", components |-> comps2, info |-> info,
              bundles |-> [bundle_infos |-> Append(bndls.bundle_infos, info),
                           by_type_id |-> bndls.by_type_id @@ (B :> info.id)]]))))

\* --------------------------------------------------------------- Tables

\* A column is the sequence of its cells; a table is its columns, by
\* component id, and the entity of each row.
TableBuilder_build(columns) == [columns |-> columns, entities |-> <<>>]

Tables_default ==
    [tables |-> <<TableBuilder_build(SparseMap_with_capacity)>>,
     by_components |-> (<<>> :> 0)]

\* A component cell: the column it was stored in and its value.
Cell(component_id, value) == [component_id |-> component_id, value |-> value]

\* BlobVec::clear and BlobVec's drop: the drop function runs on every cell
\* the vector holds.
BlobVec_clear(component_id, data) ==
    [i \in 1..Len(data) |-> Cell(component_id, data[i])]

\* Dropping a Table drops its columns, in the order of the sparse map's
\* backing array (index is the next slot to drop).
RECURSIVE Table_drop(_, _)
Table_drop(table, index) ==
    IF index >= Len(table.columns.values) THEN <<>>
    ELSE (IF At(table.columns.values, index).some
          THEN BlobVec_clear(index, At(table.columns.values, index).v)
          ELSE <<>>) \o Table_drop(table, index + 1)

\* Dropping the Vec of tables drops each table in turn.
RECURSIVE Tables_drop(_)
Tables_drop(tbls) ==
    IF tbls = <<>> THEN <<>>
    ELSE Table_drop(Head(tbls), 0) \o Tables_drop(Tail(tbls))

\* Tables::clear: the Vec of tables is emptied, which drops every table.
Tables_clear(tbls) == [tbls EXCEPT !.tables = <<>>]

Tables_insert(tbls, table, checks) ==
    Let(SparseMap_keys(table.columns, checks), LAMBDA k :
    Let(Len(tbls.tables), LAMBDA table_id :
        IF k.panic # "" THEN [panic |-> k.panic, tables |-> tbls, id |-> table_id]
        ELSE IF k.keys \in DOMAIN tbls.by_components
        THEN [panic |-> "tried to insert a table that already exists", id |-> table_id,
              tables |-> [tbls EXCEPT !.by_components[k.keys] = table_id]]
        ELSE [panic |-> "", id |-> table_id,
              tables |-> [tables |-> Append(tbls.tables, table),
                          by_components |-> tbls.by_components @@ (k.keys :> table_id)]]))

\* ----------------------------------------------------------- Archetypes

Edges_default ==
    [add_bundle |-> SparseMap_with_capacity, remove_bundle |-> SparseMap_with_capacity]

Archetypes_default ==
    [archetypes |-> << [id |-> 0, table_id |-> 0, entities |-> <<>>,
                        components |-> SparseMap_with_capacity,
                        edges |-> Edges_default] >>,
     by_components |-> (<<>> :> 0)]

Archetype_insert_entity(arch, archetype_entity) ==
    [arch |-> [arch EXCEPT !.entities = Append(@, archetype_entity)],
     row |-> Len(arch.entities)]

Archetype_remove_entity(arch, archetype_row) ==
    IF archetype_row = U32Max
    THEN [panic |-> "", arch |-> arch, changed |-> NoneV]
    ELSE IF ~InRange(arch.entities, archetype_row)
    THEN [panic |-> "swap_remove index out of bounds", arch |-> arch, changed |-> NoneV]
    ELSE
    Let(SwapRemove(arch.entities, archetype_row), LAMBDA rest :
        [panic |-> "", arch |-> [arch EXCEPT !.entities = rest],
         changed |-> IF archetype_row # Len(arch.entities) - 1
                     THEN Some([entity |-> At(rest, archetype_row).entity,
                                changed_value |-> archetype_row])
                     ELSE NoneV])

\* create_archetype's loop: for each component id, insert its info into the
\* archetype's sparse map and, for a new table, add its column.
RECURSIVE create_archetype_loop(_, _, _, _)
create_archetype_loop(infos, columns, existing, component_ids) ==
    IF component_ids = <<>>
    THEN [panic |-> "", infos |-> infos, columns |-> columns]
    ELSE
    Let(Head(component_ids), LAMBDA cid :
    Let(SparseMap_insert(infos, cid, cid), LAMBDA i :
        IF i.panic # "" THEN [panic |-> i.panic, infos |-> i.map, columns |-> columns]
        ELSE
        Let(IF existing THEN [panic |-> "", map |-> columns]
            ELSE SparseMap_insert(columns, cid, <<>>), LAMBDA c :
            IF c.panic # ""
            THEN [panic |-> c.panic, infos |-> i.map, columns |-> c.map]
            ELSE create_archetype_loop(i.map, c.map, existing, Tail(component_ids)))))

NoArchetype ==
    [id |-> U32Max, table_id |-> U32Max, entities |-> <<>>,
     components |-> SparseMap_with_capacity, edges |-> Edges_default]

create_archetype(archetype_id, component_ids, tbls, checks) ==
    Let(component_ids \in DOMAIN tbls.by_components, LAMBDA existing :
    Let(create_archetype_loop(SparseMap_with_capacity, SparseMap_with_capacity,
                              existing, component_ids), LAMBDA l :
        IF l.panic # ""
        THEN [panic |-> l.panic, tables |-> tbls, archetype |-> NoArchetype]
        ELSE
        Let(IF existing
            THEN [panic |-> "", tables |-> tbls, id |-> tbls.by_components[component_ids]]
            ELSE Tables_insert(tbls, TableBuilder_build(l.columns), checks), LAMBDA t :
            IF t.panic # ""
            THEN [panic |-> t.panic, tables |-> t.tables, archetype |-> NoArchetype]
            ELSE [panic |-> "", tables |-> t.tables,
                  archetype |-> [id |-> archetype_id, table_id |-> t.id,
                                 entities |-> <<>>, components |-> l.infos,
                                 edges |-> Edges_default]])))

Archetypes_get_or_insert_archetype_by_components(archs, tbls, component_ids, checks) ==
    Let(Len(archs.archetypes), LAMBDA reserved :
        IF component_ids \in DOMAIN archs.by_components
        THEN [panic |-> "", archetypes |-> archs, tables |-> tbls,
              id |-> archs.by_components[component_ids]]
        ELSE
        Let(create_archetype(reserved, component_ids, tbls, checks), LAMBDA c :
            IF c.panic # ""
            THEN [panic |-> c.panic, archetypes |-> archs, tables |-> c.tables,
                  id |-> reserved]
            ELSE [panic |-> "", tables |-> c.tables, id |-> reserved,
                  archetypes |->
                      [archetypes |-> Append(archs.archetypes, c.archetype),
                       by_components |->
                           archs.by_components @@ (component_ids :> reserved)]]))

\* add_bundle's loop over the bundle's component ids: an id the archetype
\* already has goes to the duplicate set, any other to the new id list.
RECURSIVE add_bundle_loop(_, _, _, _)
add_bundle_loop(existing, duplicate, component_ids, bundle_ids) ==
    IF bundle_ids = <<>>
    THEN [panic |-> "", duplicate |-> duplicate, component_ids |-> component_ids]
    ELSE
    Let(Head(bundle_ids), LAMBDA cid :
        IF SparseMap_contains_key(existing, cid)
        THEN Let(SparseMap_insert(duplicate, cid, TRUE), LAMBDA d :
                 IF d.panic # ""
                 THEN [panic |-> d.panic, duplicate |-> d.map,
                       component_ids |-> component_ids]
                 ELSE add_bundle_loop(existing, d.map, component_ids, Tail(bundle_ids)))
        ELSE add_bundle_loop(existing, duplicate, Append(component_ids, cid),
                             Tail(bundle_ids)))

NoPair == [some |-> FALSE]

\* What add_bundle and remove_bundle return: the archetypes and tables
\* they leave, and the pair they hand out ("pair" is None for no pair).
EdgeResult(msg, archs, tbls, pair) ==
    [panic |-> msg, archetypes |-> archs, tables |-> tbls, pair |-> pair]

\* the closing slice_get_mut_pair(...).ok() of add_bundle and remove_bundle
EdgePair(archs, tbls, from, to) ==
    Let(slice_get_mut_pair(Len(archs.archetypes), from, to), LAMBDA p :
        EdgeResult(p.panic, archs, tbls,
                   IF p.panic = "" /\ p.ok
                   THEN Some([from |-> p.first, to |-> p.second]) ELSE NoPair))

\* Archetypes::add_bundle past its early return: look the edge up or
\* create it, then hand out the pair of archetypes.
add_bundle_edge(archs, tbls, archetype_id, bundle_info, checks) ==
    IF ~InRange(archs.archetypes, archetype_id)
    THEN EdgeResult("index out of bounds", archs, tbls, NoPair)
    ELSE
    Let(At(archs.archetypes, archetype_id), LAMBDA from :
    Let(SparseMap_get(from.edges.add_bundle, bundle_info.id), LAMBDA edge :
    Let(IF edge.some
        THEN EdgeResult("", archs, tbls, Some(edge.v.archetype_id))
        ELSE
        Let(SparseMap_keys(from.components, checks), LAMBDA k :
            IF k.panic # "" THEN EdgeResult(k.panic, archs, tbls, NoPair)
            ELSE
            Let(add_bundle_loop(from.components, SparseMap_with_capacity,
                                k.keys, bundle_info.component_ids), LAMBDA l :
            IF l.panic # "" THEN EdgeResult(l.panic, archs, tbls, NoPair)
            ELSE
            Let(Archetypes_get_or_insert_archetype_by_components(
                    archs, tbls, SortSeq(l.component_ids, LAMBDA x, y : x < y), checks),
                LAMBDA g :
            IF g.panic # "" THEN EdgeResult(g.panic, g.archetypes, g.tables, NoPair)
            ELSE
            Let(SparseMap_insert(
                    At(g.archetypes.archetypes, archetype_id).edges.add_bundle,
                    bundle_info.id,
                    [archetype_id |-> g.id, duplicate |-> l.duplicate]), LAMBDA e :
                EdgeResult(e.panic,
                           [g.archetypes EXCEPT
                               !.archetypes[archetype_id + 1].edges.add_bundle = e.map],
                           g.tables,
                           IF e.panic = "" THEN Some(g.id) ELSE NoPair))))),
        LAMBDA to :
        IF to.pair.some
        THEN EdgePair(to.archetypes, to.tables, archetype_id, to.pair.v)
        ELSE to)))

\* add_bundle without its early return for the empty bundle
Archetypes_add_bundle_no_early_return(archs, tbls, archetype_id, bundle_info, checks) ==
    add_bundle_edge(archs, tbls, archetype_id, bundle_info, checks)

\* Archetypes::add_bundle.  The result names the pair of archetypes by
\* their indices; inserting an empty bundle does nothing.
Archetypes_add_bundle(archs, tbls, archetype_id, bundle_info, checks) ==
    IF bundle_info.component_ids = <<>> THEN EdgeResult("", archs, tbls, NoPair)
    ELSE add_bundle_edge(archs, tbls, archetype_id, bundle_info, checks)

\* Archetypes::remove_bundle.  An edge value is [match, archetype_id].
Archetypes_remove_bundle(archs, tbls, archetype_id, bundle_info, checks) ==
    IF bundle_info.component_ids = <<>> THEN EdgeResult("", archs, tbls, NoPair)
    ELSE IF ~InRange(archs.archetypes, archetype_id)
    THEN EdgeResult("index out of bounds", archs, tbls, NoPair)
    ELSE
    Let(At(archs.archetypes, archetype_id), LAMBDA from :
    Let(SparseMap_get(from.edges.remove_bundle, bundle_info.id), LAMBDA edge :
    Let(IF edge.some
        THEN EdgeResult("", archs, tbls,
                        IF edge.v.match THEN Some(edge.v.archetype_id) ELSE NoPair)
        ELSE
        Let(SparseSet_from_iter(SparseMap_with_capacity, bundle_info.component_ids),
            LAMBDA remove_components :
            IF remove_components.panic # ""
            THEN EdgeResult(remove_components.panic, archs, tbls, NoPair)
            ELSE
            Let(SparseMap_keys(from.components, checks), LAMBDA k :
            IF k.panic # "" THEN EdgeResult(k.panic, archs, tbls, NoPair)
            ELSE
            Let(SelectSeq(k.keys,
                    LAMBDA c : ~SparseMap_contains_key(remove_components.map, c)),
                LAMBDA kept :
            Let(remove_components.map.len + Len(kept) < from.components.len,
                LAMBDA mismatch :
            Let(IF mismatch
                THEN [panic |-> "", archetypes |-> archs, tables |-> tbls, id |-> U32Max]
                ELSE Archetypes_get_or_insert_archetype_by_components(
                         archs, tbls, kept, checks), LAMBDA g :
            IF g.panic # "" THEN EdgeResult(g.panic, g.archetypes, g.tables, NoPair)
            ELSE
            Let(SparseMap_insert(
                    At(g.archetypes.archetypes, archetype_id).edges.remove_bundle,
                    bundle_info.id,
                    [match |-> ~mismatch, archetype_id |-> g.id]), LAMBDA e :
                EdgeResult(e.panic,
                           [g.archetypes EXCEPT
                               !.archetypes[archetype_id + 1].edges.remove_bundle = e.map],
                           g.tables,
                           IF e.panic = "" /\ ~mismatch THEN Some(g.id) ELSE NoPair))))))),
        LAMBDA to :
        IF to.pair.some
        THEN EdgePair(to.archetypes, to.tables, archetype_id, to.pair.v)
        ELSE to)))

\* ---------------------------------------------------------------- Table

\* One column of move_row's loop: the cell at row leaves the source column
\* (the last cell takes its place); it is appended to the destination
\* column when the destination table has one, and is otherwise dropped,
\* forgotten or a panic, as the policy says.
RECURSIVE move_row_columns(_, _, _, _, _)
move_row_columns(from_columns, to_columns, row, policy, cids) ==
    IF cids = <<>>
    THEN [panic |-> "", from_columns |-> from_columns, to_columns |-> to_columns,
          dropped |-> <<>>]
    ELSE
    Let(Head(cids), LAMBDA cid :
    Let(At(from_columns.values, cid).v, LAMBDA column :
        IF ~InRange(column, row)
        THEN [panic |-> "swap_remove index out of bounds",
              from_columns |-> from_columns, to_columns |-> to_columns,
              dropped |-> <<>>]
        ELSE
        Let([from_columns EXCEPT !.values[cid + 1] = Some(SwapRemove(column, row))],
            LAMBDA f2 :
            IF SparseMap_contains_key(to_columns, cid)
            THEN move_row_columns(
                     f2,
                     [to_columns EXCEPT !.values[cid + 1] =
                         Some(Append(At(to_columns.values, cid).v, At(column, row)))],
                     row, policy, Tail(cids))
            ELSE IF policy = "panic"
            THEN [panic |-> "unexpected unmatched column",
                  from_columns |-> from_columns, to_columns |-> to_columns,
                  dropped |-> <<>>]
            ELSE IF policy = "drop"
            THEN Let(move_row_columns(f2, to_columns, row, policy, Tail(cids)),
                     LAMBDA rest :
                     [rest EXCEPT !.dropped = <<Cell(cid, At(column, row))>> \o @])
            ELSE move_row_columns(f2, to_columns, row, policy, Tail(cids)))))

\* Table::move_row.  The row it reports for the destination is the length
\* of the source table's entity list, read after the push to the
\* destination and before the removal from the source.
Table_move_row(from_table, to_table, from_row, entity, policy, checks) ==
    Let([to_table EXCEPT !.entities = Append(@, entity)], LAMBDA to1 :
    Let(Len(from_table.entities), LAMBDA to_row :
    Let([panic |-> "", from |-> from_table, to |-> to1, to_row |-> to_row,
         swapped |-> NoneV, dropped |-> <<>>], LAMBDA unmoved :
        IF from_row = U32Max THEN unmoved
        ELSE IF ~(from_row < Len(from_table.entities))
        THEN [unmoved EXCEPT
                 !.panic = "assertion failed: row_index < self.entities.len()"]
        ELSE IF At(from_table.entities, from_row) # entity
        THEN [unmoved EXCEPT !.panic = "assertion failed: removed_entity == entity"]
        ELSE
        Let(SwapRemove(from_table.entities, from_row), LAMBDA rest :
        Let(SparseMap_keys(from_table.columns, checks), LAMBDA k :
            IF k.panic # "" THEN [unmoved EXCEPT !.panic = k.panic]
            ELSE
            Let(move_row_columns(from_table.columns, to1.columns, from_row,
                                 policy, k.keys), LAMBDA c :
                IF c.panic # "" THEN [unmoved EXCEPT !.panic = c.panic]
                ELSE [panic |-> "",
                      from |-> [columns |-> c.from_columns, entities |-> rest],
                      to |-> [to1 EXCEPT !.columns = c.to_columns],
                      to_row |-> to_row,
                      dropped |-> c.dropped,
                      swapped |-> IF from_row # Len(from_table.entities) - 1
                                  THEN Some([entity |-> At(rest, from_row),
                                             changed_value |-> from_row])
                                  ELSE NoneV]))))))

\* Table::insert: the entity gets the next row; the caller writes the
\* columns through the InsertIntoTable it is handed.
Table_insert(table, entity) ==
    [table |-> [table EXCEPT !.entities = Append(@, entity)],
     index |-> Len(table.entities)]

\* remove_row's loop over the columns: Column::remove_item drops the cell
\* at the row and puts the column's last cell in its place.
RECURSIVE remove_row_columns(_, _, _)
remove_row_columns(columns, row, index) ==
    IF index >= Len(columns.values) THEN [columns |-> columns, dropped |-> <<>>]
    ELSE IF ~At(columns.values, index).some
    THEN remove_row_columns(columns, row, index + 1)
    ELSE
    Let(At(columns.values, index).v, LAMBDA column :
    Let(remove_row_columns(
            [columns EXCEPT !.values[index + 1] = Some(SwapRemove(column, row))],
            row, index + 1), LAMBDA rest :
        [rest EXCEPT !.dropped = <<Cell(index, At(column, row))>> \o @]))

\* Table::remove_row
Table_remove_row(table, row) ==
    IF row = U32Max
    THEN [panic |-> "", table |-> table, changed |-> NoneV, dropped |-> <<>>]
    ELSE IF ~(row < Len(table.entities))
    THEN [panic |-> "assertion failed: row_index < self.entities.len()",
          table |-> table, changed |-> NoneV, dropped |-> <<>>]
    ELSE
    Let(SwapRemove(table.entities, row), LAMBDA rest :
    Let(remove_row_columns(table.columns, row, 0), LAMBDA c :
        [panic |-> "",
         table |-> [columns |-> c.columns, entities |-> rest],
         dropped |-> c.dropped,
         changed |-> IF row # Len(table.entities) - 1
                     THEN Some([entity |-> At(rest, row), changed_value |-> row])
                     ELSE NoneV]))

\* Table::get_component
Table_get_component(table, component_id, table_row) ==
    Let(SparseMap_get(table.columns, component_id), LAMBDA column :
        IF ~column.some THEN [panic |-> "", value |-> NoneV]
        ELSE IF ~InRange(column.v, table_row)
        THEN [panic |-> "index out of bounds", value |-> NoneV]
        ELSE [panic |-> "", value |-> Some(At(column.v, table_row))])

\* Table::take_component_and_remove_later, unwrapped by its caller: the
\* cell is copied out and stays in the column until the row is removed.
Table_take_component_and_remove_later(table, component_id, table_row) ==
    Let(SparseMap_get(table.columns, component_id), LAMBDA column :
        IF ~column.some
        THEN [panic |-> "called Option::unwrap() on a None value", value |-> 0]
        ELSE IF ~InRange(column.v, table_row)
        THEN [panic |-> "index out of bounds", value |-> 0]
        ELSE [panic |-> "", value |-> At(column.v, table_row)])

\* InsertIntoTable::write_column
InsertIntoTable_write_column(table, index, component_id, value) ==
    Let(SparseMap_get(table.columns, component_id), LAMBDA column :
        IF ~column.some
        THEN [panic |-> "trying to write to column, but table has only columns",
              table |-> table]
        ELSE IF Len(column.v) # index
        THEN [panic |-> "assertion failed: column.len() == self.index", table |-> table]
        ELSE [panic |-> "",
              table |-> [table EXCEPT !.columns.values[component_id + 1] =
                            Some(Append(column.v, value))]])

\* ------------------------------------------------ insert / remove / take

\* The world an operation works on, as one record, with the log of the
\* drop functions that have run.
World ==
    [entities |-> entities, components |-> components, bundles |-> bundles,
     archetypes |-> archetypes, tables |-> tables, dropped |-> dropped]

Op_get_bundle_edge(op, archs, tbls, archetype_id, bundle_info, checks) ==
    IF op = "insert"
    THEN Archetypes_add_bundle(archs, tbls, archetype_id, bundle_info, checks)
    ELSE Archetypes_remove_bundle(archs, tbls, archetype_id, bundle_info, checks)

Op_handle_unmatched(op) ==
    CASE op = "insert" -> "panic"
      [] op = "remove" -> "drop"
      [] op = "take" -> "forget"

\* TakeComponentsFromTable: the i-th component the bundle type asks for is
\* read from the column of the i-th id of the bundle's sorted id list.
RECURSIVE TakeComponentsFromTable(_, _, _)
TakeComponentsFromTable(table, table_row, component_ids) ==
    IF component_ids = <<>> THEN [panic |-> "", values |-> <<>>]
    ELSE
    Let(Table_take_component_and_remove_later(table, Head(component_ids), table_row),
        LAMBDA t :
        IF t.panic # "" THEN [panic |-> t.panic, values |-> <<>>]
        ELSE Let(TakeComponentsFromTable(table, table_row, Tail(component_ids)),
                 LAMBDA rest :
                 [panic |-> rest.panic, values |-> <<t.value>> \o rest.values]))

\* InsertComponentsIntoTable: the i-th component the bundle value hands
\* over is written to the column of the i-th id of the sorted id list,
\* unless that id is in the edge's duplicate set.
RECURSIVE InsertComponentsIntoTable(_, _, _, _, _)
InsertComponentsIntoTable(table, index, component_ids, vals, duplicate) ==
    IF vals = <<>> THEN [panic |-> "", table |-> table]
    ELSE IF component_ids = <<>>
    THEN [panic |-> "not enough component ids from bundle info", table |-> table]
    ELSE IF SparseMap_contains_key(duplicate, Head(component_ids))
    THEN InsertComponentsIntoTable(table, index, Tail(component_ids), Tail(vals),
                                   duplicate)
    ELSE
    Let(InsertIntoTable_write_column(table, index, Head(component_ids), Head(vals)),
        LAMBDA w :
        IF w.panic # "" THEN w
        ELSE InsertComponentsIntoTable(w.table, index, Tail(component_ids),
                                       Tail(vals), duplicate))

\* InsertOp::insert
InsertOp_insert(table, index, bundle_info, vals, from_archetype) ==
    Let(SparseMap_get(from_archetype.edges.add_bundle, bundle_info.id),
        LAMBDA add_bundle :
        IF ~add_bundle.some
        THEN [panic |-> "called Option::unwrap() on a None value", table |-> table]
        ELSE InsertComponentsIntoTable(table, index, bundle_info.component_ids, vals,
                                       add_bundle.v.duplicate))

\* What the table half of insert_remove_take_inner leaves behind.
TablesResult(msg, tbls, ents, table_row, output, cells) ==
    [panic |-> msg, tables |-> tbls, entities |-> ents, table_row |-> table_row,
     output |-> output, dropped |-> cells]

\* The Ok arm of the match on get_mut_pair: take, move_row, the swapped
\* entity's new row, insert.
MoveBetweenTables(w, entity, loc, op, bundle_info, vals, from_archetype, first, second, checks) ==
    Let(IF op = "take"
        THEN TakeComponentsFromTable(At(w.tables.tables, first), loc.table_row,
                                     bundle_info.component_ids)
        ELSE [panic |-> "", values |-> <<>>], LAMBDA tk :
    IF tk.panic # "" THEN TablesResult(tk.panic, w.tables, w.entities, loc.table_row, NoneV,
                                         <<>>)
    ELSE
    Let(Table_move_row(At(w.tables.tables, first), At(w.tables.tables, second),
                       loc.table_row, entity, Op_handle_unmatched(op), checks),
        LAMBDA m :
    Let([w.tables EXCEPT !.tables[first + 1] = m.from, !.tables[second + 1] = m.to],
        LAMBDA t1 :
    IF m.panic # "" THEN TablesResult(m.panic, t1, w.entities, loc.table_row, NoneV,
                                        m.dropped)
    ELSE
    Let(IF m.swapped.some
        THEN ChangedLocation_apply(w.entities, m.swapped.v.entity, "table_row",
                                   m.swapped.v.changed_value)
        ELSE [panic |-> "", ents |-> w.entities], LAMBDA sw :
    IF sw.panic # "" THEN TablesResult(sw.panic, t1, sw.ents, m.to_row, NoneV,
                                         m.dropped)
    ELSE
    Let(IF op = "insert"
        THEN InsertOp_insert(m.to, m.to_row, bundle_info, vals, from_archetype)
        ELSE [panic |-> "", table |-> m.to], LAMBDA ins :
        TablesResult(ins.panic, [t1 EXCEPT !.tables[second + 1] = ins.table], sw.ents,
                     m.to_row, Some(tk.values), m.dropped))))))

\* The table half of insert_remove_take_inner (the match on get_mut_pair).
MoveTables(w, entity, loc, op, bundle_info, vals, from_archetype, to_archetype, checks) ==
    Let(slice_get_mut_pair(Len(w.tables.tables), from_archetype.table_id,
                           to_archetype.table_id), LAMBDA p :
        IF p.panic # "" \/ ~p.ok
        THEN TablesResult(p.panic, w.tables, w.entities, loc.table_row, NoneV, <<>>)
        ELSE MoveBetweenTables(w, entity, loc, op, bundle_info, vals, from_archetype,
                               p.first, p.second, checks))

\* What insert_remove_take_inner leaves behind: the world, the handle's
\* cached location, the output.
OpResult(msg, w, location, output) ==
    [panic |-> msg, w |-> w, location |-> location, output |-> output]

\* The body of insert_remove_take_inner once the edge has yielded the pair
\* of archetypes.
MoveEntity(w, entity, loc, op, bundle_info, vals, from_id, to_id, checks) ==
    Let(At(w.archetypes.archetypes, from_id), LAMBDA from_archetype :
    Let(At(w.archetypes.archetypes, to_id), LAMBDA to_archetype :
    Let(MoveTables(w, entity, loc, op, bundle_info, vals, from_archetype,
                   to_archetype, checks), LAMBDA t :
    Let([w EXCEPT !.tables = t.tables, !.entities = t.entities,
                  !.dropped = @ \o t.dropped], LAMBDA w1 :
    IF t.panic # "" THEN OpResult(t.panic, w1, loc, NoneV)
    ELSE
    Let(Archetype_remove_entity(from_archetype, loc.archetype_row), LAMBDA r :
    IF r.panic # "" THEN OpResult(r.panic, w1, loc, NoneV)
    ELSE
    Let(IF r.changed.some
        THEN ChangedLocation_apply(t.entities, r.changed.v.entity, "archetype_row",
                                   r.changed.v.changed_value)
        ELSE [panic |-> "", ents |-> t.entities], LAMBDA c :
    IF c.panic # "" THEN OpResult(c.panic, [w1 EXCEPT !.entities = c.ents], loc, NoneV)
    ELSE
    Let(Archetype_insert_entity(to_archetype,
                                [entity |-> entity, table_row |-> t.table_row]),
        LAMBDA i :
    Let([archetype_id |-> to_archetype.id, archetype_row |-> i.row,
         table_id |-> to_archetype.table_id, table_row |-> t.table_row],
        LAMBDA new_entity_location :
    Let(ChangedLocation_apply(c.ents, entity, "all", new_entity_location), LAMBDA s :
        OpResult(s.panic,
                 [w1 EXCEPT !.entities = s.ents,
                            !.archetypes.archetypes[from_id + 1] = r.arch,
                            !.archetypes.archetypes[to_id + 1] = i.arch],
                 IF s.panic = "" THEN new_entity_location ELSE loc,
                 IF s.panic = "" THEN t.output ELSE NoneV))))))))))

\* EntityWorldMut::insert_remove_take_inner, for op in insert, remove, take
\* on a bundle of type B (vals are the component values insert is given).
insert_remove_take_inner(w, entity, loc, op, B, vals, checks) ==
    Let(Bundles_get_mut_or_insert_inner(w.bundles, w.components, B), LAMBDA b :
    Let([w EXCEPT !.bundles = b.bundles, !.components = b.components], LAMBDA w1 :
    IF b.panic # "" THEN OpResult(b.panic, w1, loc, NoneV)
    ELSE
    Let(Op_get_bundle_edge(op, w1.archetypes, w1.tables, loc.archetype_id, b.info,
                           checks), LAMBDA e :
    Let([w1 EXCEPT !.archetypes = e.archetypes, !.tables = e.tables], LAMBDA w2 :
    IF e.panic # "" \/ ~e.pair.some THEN OpResult(e.panic, w2, loc, NoneV)
    ELSE MoveEntity(w2, entity, loc, op, b.info, vals, e.pair.v.from, e.pair.v.to,
                    checks)))))

\* get_component, as EntityRef::get and EntityWorldMut::get call it
get_component(loc, comps, tbls, C) ==
    Let(Components_get_component_id(comps, C), LAMBDA component_id :
        IF ~component_id.some THEN [panic |-> "", value |-> NoneV]
        ELSE IF ~InRange(tbls.tables, loc.table_id)
        THEN [panic |-> "index out of bounds", value |-> NoneV]
        ELSE Table_get_component(At(tbls.tables, loc.table_id), component_id.v,
                                 loc.table_row))

\* World::get_entity(entity) followed by EntityRef::get::<C>()
World_get(w, entity, C) ==
    Let(Entities_get_location(w.entities, entity), LAMBDA l :
        IF l.panic # "" \/ ~l.loc.some
        THEN [panic |-> l.panic, found |-> FALSE, value |-> NoneV]
        ELSE Let(get_component(l.loc.v, w.components, w.tables, C), LAMBDA g :
                 [panic |-> g.panic, found |-> TRUE, value |-> g.value]))

\* ---------------------------------------------------------- World actions

\* Entity::PLACEHOLDER
Entity_PLACEHOLDER == Entity(U32Max, GenerationNew)

\* The record of the most recent call: its name, the entity and bundle it
\* was given, what it returned, and ("fresh") the spawn call that made the
\* entity when no call has touched the entity since.
Call(op, entity, bundle, vals, out, found, fresh) ==
    [op |-> op, entity |-> entity, bundle |-> bundle, vals |-> vals,
     out |-> out, found |-> found, fresh |-> fresh]

Fresh(entity) ==
    IF \E s \in spawned : s.entity = entity
    THEN Some(CHOOSE s \in spawned : s.entity = entity)
    ELSE NoneV

SetWorld(w) ==
    /\ entities' = w.entities
    /\ components' = w.components
    /\ bundles' = w.bundles
    /\ archetypes' = w.archetypes
    /\ tables' = w.tables
    /\ dropped' = w.dropped

\* The world exists and no operation has aborted.
Running == aborted = "" /\ last.op # "drop"

\* allocate stays within the bounds of the model
CanAllocate(ents) ==
    IF ents.free_list # <<>>
    THEN Last(ents.free_list).generation < MaxGeneration
    ELSE Len(ents.meta) < MaxEntities

ValuesOf(B) == [1..Len(B) -> Values]

\* The spawn calls whose entity no later call has touched.
Untouched(entity) == {s \in spawned : s.entity # entity}

\* World::new
Init ==
    /\ entities = Entities_default
    /\ components = <<>>
    /\ bundles = Bundles_default
    /\ archetypes = Archetypes_default
    /\ tables = Tables_default
    /\ cur = NoneV
    /\ issued = {}
    /\ freed = {}
    /\ spawned = {}
    /\ last = Call("new", Entity_PLACEHOLDER, <<>>, <<>>, NoneV, FALSE, NoneV)
    /\ aborted = ""
    /\ dropped = <<>>
    /\ origin = LocationInvalid
    /\ overflow_checks \in BOOLEAN
    /\ sparse = [map |-> SparseMap_with_capacity, reference |-> ReferenceEmpty,
                 panic |-> ""]
    /\ world_ids = [IDS |-> 2, ids |-> <<1>>,
                    threads |-> [t \in Threads |-> ThreadIdle]]

\* World::spawn_empty
SpawnEmpty ==
    /\ Running /\ ~cur.some /\ CanAllocate(entities)
    /\ LET a == Entities_allocate(entities)
       IN  /\ entities' = a.ents
           /\ cur' = Some([entity |-> a.entity, entity_location |-> LocationEmpty])
           /\ issued' = issued \cup {a.entity}
           /\ last' = Call("spawn_empty", a.entity, <<>>, <<>>, NoneV, TRUE, NoneV)
    /\ UNCHANGED <<components, bundles, archetypes, tables, freed, spawned,
                   aborted, dropped, origin, overflow_checks, world_ids, sparse>>

\* World::spawn(bundle)
Spawn(B, vals) ==
    /\ Running /\ ~cur.some /\ CanAllocate(entities)
    /\ LET a == Entities_allocate(entities)
       IN  \E r \in {insert_remove_take_inner([World EXCEPT !.entities = a.ents],
                    a.entity, LocationEmpty, "insert", B, vals, overflow_checks)} :
           /\ SetWorld(r.w)
           /\ aborted' = r.panic
           /\ cur' = IF r.panic = ""
                     THEN Some([entity |-> a.entity, entity_location |-> r.location])
                     ELSE NoneV
           /\ issued' = issued \cup {a.entity}
           /\ spawned' = Untouched(a.entity)
                         \cup {[entity |-> a.entity, bundle |-> B, vals |-> vals]}
           /\ last' = Call("spawn", a.entity, B, vals, NoneV, TRUE, NoneV)
    /\ origin' = LocationEmpty
    /\ UNCHANGED <<freed, overflow_checks, world_ids, sparse>>

\* EntityWorldMut::insert, remove and take on the handle the caller holds
HandleOp(op, B, vals) ==
    /\ Running /\ cur.some
    /\ \E r \in {insert_remove_take_inner(World, cur.v.entity, cur.v.entity_location,
                                          op, B, vals, overflow_checks)} :
           /\ SetWorld(r.w)
           /\ aborted' = r.panic
           /\ cur' = Some([entity |-> cur.v.entity, entity_location |-> r.location])
           /\ last' = Call(op, cur.v.entity, B, vals, r.output, TRUE,
                           Fresh(cur.v.entity))
    /\ spawned' = Untouched(cur.v.entity)
    /\ origin' = cur.v.entity_location
    /\ UNCHANGED <<issued, freed, overflow_checks, world_ids, sparse>>

Insert(B, vals) == HandleOp("insert", B, vals)

Remove(B) == HandleOp("remove", B, <<>>)

Take(B) == HandleOp("take", B, <<>>)

\* EntityWorldMut::get::<C>()
Get(C) ==
    /\ Running /\ cur.some
    /\ LET g == get_component(cur.v.entity_location, components, tables, C)
       IN  /\ aborted' = g.panic
           /\ last' = Call("get", cur.v.entity, <<C>>, <<>>, g.value, TRUE, NoneV)
    /\ UNCHANGED <<entities, components, bundles, archetypes, tables, cur, issued,
                   freed, spawned, dropped, origin, overflow_checks, world_ids, sparse>>

\* the caller drops the EntityWorldMut it holds
Release ==
    /\ Running /\ cur.some
    /\ cur' = NoneV
    /\ UNCHANGED <<entities, components, bundles, archetypes, tables, issued,
                   freed, spawned, last, aborted, dropped, origin, overflow_checks, world_ids, sparse>>

\* World::get_entity_world_mut(entity)
GetEntityWorldMut(entity) ==
    /\ Running /\ ~cur.some
    /\ LET l == Entities_get_location(entities, entity)
       IN  /\ aborted' = l.panic
           /\ cur' = IF l.panic = "" /\ l.loc.some
                     THEN Some([entity |-> entity, entity_location |-> l.loc.v])
                     ELSE NoneV
           /\ last' = Call("get_entity_world_mut", entity, <<>>, <<>>, NoneV,
                           l.loc.some, NoneV)
    /\ UNCHANGED <<entities, components, bundles, archetypes, tables, issued,
                   freed, spawned, dropped, origin, overflow_checks, world_ids, sparse>>

\* World::get_entity(entity) and then EntityRef::get::<C>()
GetEntity(entity, C) ==
    /\ Running /\ ~cur.some
    /\ LET g == World_get(World, entity, C)
       IN  /\ aborted' = g.panic
           /\ last' = Call("get_entity", entity, <<C>>, <<>>, g.value, g.found,
                           NoneV)
    /\ UNCHANGED <<entities, components, bundles, archetypes, tables, cur, issued,
                   freed, spawned, dropped, origin, overflow_checks, world_ids, sparse>>

\* World::clear_entities
ClearEntities ==
    /\ Running /\ ~cur.some
    /\ entities' = Entities_clear(entities)
    /\ tables' = Tables_clear(tables)
    /\ dropped' = dropped \o Tables_drop(tables.tables)
    /\ spawned' = {}
    /\ last' = Call("clear_entities", Entity_PLACEHOLDER, <<>>, <<>>, NoneV, FALSE,
                    NoneV)
    /\ UNCHANGED <<components, bundles, archetypes, cur, issued, freed, aborted,
                   origin, overflow_checks, world_ids, sparse>>

\* World::clear_all: clear_entities, then clear_resources (the resources
\* hold no entity, archetype or table).
ClearAll ==
    /\ Running /\ ~cur.some
    /\ entities' = Entities_clear(entities)
    /\ tables' = Tables_clear(tables)
    /\ dropped' = dropped \o Tables_drop(tables.tables)
    /\ spawned' = {}
    /\ last' = Call("clear_all", Entity_PLACEHOLDER, <<>>, <<>>, NoneV, FALSE, NoneV)
    /\ UNCHANGED <<components, bundles, archetypes, cur, issued, freed, aborted,
                   origin, overflow_checks, world_ids, sparse>>

\* EntityWorldMut::despawn, which consumes the handle: todo!()
Despawn ==
    /\ Running /\ cur.some
    /\ aborted' = "not yet implemented"
    /\ cur' = NoneV
    /\ last' = Call("despawn", cur.v.entity, <<>>, <<>>, NoneV, TRUE, NoneV)
    /\ UNCHANGED <<entities, components, bundles, archetypes, tables, issued, freed,
                   spawned, dropped, origin, overflow_checks, world_ids, sparse>>

\* World::despawn(entity): EntityWorldMut::despawn when the entity resolves
WorldDespawn(entity) ==
    /\ Running /\ ~cur.some
    /\ \E l \in {Entities_get_location(entities, entity)} :
           /\ aborted' = IF l.panic # "" THEN l.panic
                         ELSE IF l.loc.some THEN "not yet implemented" ELSE ""
           /\ last' = Call("world_despawn", entity, <<>>, <<>>, NoneV, l.loc.some,
                           NoneV)
    /\ UNCHANGED <<entities, components, bundles, archetypes, tables, cur, issued,
                   freed, spawned, dropped, origin, overflow_checks, world_ids, sparse>>

\* The World is dropped: its fields are dropped, the tables among them.
DropWorld ==
    /\ Running /\ ~cur.some
    /\ dropped' = dropped \o Tables_drop(tables.tables)
    /\ last' = Call("drop", Entity_PLACEHOLDER, <<>>, <<>>, NoneV, FALSE, NoneV)
    /\ UNCHANGED <<entities, components, bundles, archetypes, tables, cur, issued,
                   freed, spawned, aborted, origin, overflow_checks, world_ids, sparse>>

Next ==
    \/ SpawnEmpty
    \/ \E B \in BundleTypes : \E vals \in ValuesOf(B) : Spawn(B, vals)
    \/ \E B \in BundleTypes : \E vals \in ValuesOf(B) : Insert(B, vals)
    \/ \E B \in BundleTypes : Remove(B)
    \/ \E B \in BundleTypes : Take(B)
    \/ \E C \in ComponentTypes : Get(C)
    \/ Release
    \/ \E entity \in issued : GetEntityWorldMut(entity)
    \/ \E entity \in issued : \E C \in ComponentTypes : GetEntity(entity, C)
    \/ ClearEntities
    \/ ClearAll
    \/ Despawn
    \/ \E entity \in issued : WorldDespawn(entity)
    \/ DropWorld

Spec == Init /\ [][Next]_vars

\* ------------------------------- the World, with a caller that unwinds

\* A panic unwinds to a caller that catches it (catch_unwind, or the end of
\* the thread that ran the call) and keeps the World as the call left it;
\* the EntityWorldMut of the call is gone.
CatchUnwind ==
    /\ aborted # "" /\ last.op # "drop"
    /\ aborted' = ""
    /\ cur' = NoneV
    /\ last' = Call("catch_unwind", last.entity, last.bundle, <<>>, NoneV, FALSE, NoneV)
    /\ UNCHANGED <<entities, components, bundles, archetypes, tables, issued,
                   freed, spawned, dropped, origin, overflow_checks, world_ids, sparse>>

UnwindNext ==
    \/ SpawnEmpty
    \/ \E B \in BundleTypes : \E vals \in ValuesOf(B) : Spawn(B, vals)
    \/ \E B \in BundleTypes : \E vals \in ValuesOf(B) : Insert(B, vals)
    \/ Release
    \/ CatchUnwind

UnwindSpec == Init /\ [][UnwindNext]_vars

\* ------------------------------------------------- Entities, on its own

\* The locations the caller of set_location hands over.
Locations ==
    {LocationEmpty,
     [archetype_id |-> 0, archetype_row |-> 0, table_id |-> 0, table_row |-> 0]}

\* Entities::allocate
Allocate ==
    /\ Running /\ CanAllocate(entities)
    /\ entities.free_list = <<>> => Len(entities.meta) < MaxSlots
    /\ LET a == Entities_allocate(entities)
       IN  /\ entities' = a.ents
           /\ issued' = issued \cup {a.entity}
           /\ last' = Call("allocate", a.entity, <<>>, <<>>, NoneV,
                           entities.free_list # <<>>, NoneV)
    /\ UNCHANGED <<components, bundles, archetypes, tables, cur, freed, spawned,
                   aborted, dropped, origin, overflow_checks, world_ids, sparse>>

\* Entities::free(entity), with any handle allocate has returned
Free(entity) ==
    /\ Running /\ Len(entities.free_list) < MaxFreeList
    /\ LET f == Entities_free(entities, entity)
       IN  /\ entities' = f.ents
           /\ aborted' = f.panic
           /\ freed' = IF f.pushed THEN freed \cup {entity} ELSE freed
           /\ last' = Call("free", entity, <<>>, <<>>, NoneV, f.pushed, NoneV)
    /\ UNCHANGED <<components, bundles, archetypes, tables, cur, issued, spawned,
                   dropped, origin, overflow_checks, world_ids, sparse>>

\* Entities::set_location(entity, location)
SetLocation(entity, location) ==
    /\ Running
    /\ LET s == Entities_set_location(entities, entity, location)
       IN  /\ entities' = s.ents
           /\ aborted' = s.panic
           /\ last' = Call("set_location", entity, <<>>, <<>>, Some(location), TRUE,
                           NoneV)
    /\ UNCHANGED <<components, bundles, archetypes, tables, cur, issued, freed,
                   spawned, dropped, origin, overflow_checks, world_ids, sparse>>

\* Entities::get_location(entity)
GetLocation(entity) ==
    /\ Running
    /\ LET l == Entities_get_location(entities, entity)
       IN  /\ aborted' = l.panic
           /\ last' = Call("get_location", entity, <<>>, <<>>, l.loc, l.loc.some,
                           NoneV)
    /\ UNCHANGED <<entities, components, bundles, archetypes, tables, cur, issued,
                   freed, spawned, dropped, origin, overflow_checks, world_ids, sparse>>

\* Entities::clear
Clear ==
    /\ Running
    /\ entities' = Entities_clear(entities)
    /\ last' = Call("clear", Entity_PLACEHOLDER, <<>>, <<>>, NoneV, FALSE, NoneV)
    /\ UNCHANGED <<components, bundles, archetypes, tables, cur, issued, freed,
                   spawned, aborted, dropped, origin, overflow_checks, world_ids, sparse>>

EntNext ==
    \/ Allocate
    \/ \E entity \in issued : Free(entity)
    \/ \E entity \in issued : \E location \in Locations : SetLocation(entity, location)
    \/ \E entity \in issued : GetLocation(entity)
    \/ Clear

\* Entities::default; nothing in Entities depends on the build mode
EntInit == Init /\ overflow_checks

EntSpec == EntInit /\ [][EntNext]_vars

\* ------------------------- rows of one archetype and one table, on their own

\* The empty archetype and the empty table, which hold entities without
\* components.
TheArchetype == At(archetypes.archetypes, 0)

TheTable == At(tables.tables, 0)

\* ChangedLocation::apply on what a swap-remove returned, if anything.
ApplyChanged(ents, changed, field) ==
    IF changed.some
    THEN ChangedLocation_apply(ents, changed.v.entity, field, changed.v.changed_value)
    ELSE [panic |-> "", ents |-> ents]

\* A new entity is given a row in the table (Table::insert) and in the
\* archetype (Archetype::insert_entity), and its location is stored
\* (Entities::set_location).
Place ==
    /\ Running /\ entities.free_list = <<>> /\ Len(entities.meta) < MaxEntities
    /\ \E a \in {Entities_allocate(entities)} :
       \E t \in {Table_insert(TheTable, a.entity)} :
       \E i \in {Archetype_insert_entity(TheArchetype,
                      [entity |-> a.entity, table_row |-> t.index])} :
       \E s \in {Entities_set_location(a.ents, a.entity,
                      [archetype_id |-> 0, archetype_row |-> i.row,
                       table_id |-> 0, table_row |-> t.index])} :
           /\ entities' = s.ents
           /\ aborted' = s.panic
           /\ tables' = [tables EXCEPT !.tables[1] = t.table]
           /\ archetypes' = [archetypes EXCEPT !.archetypes[1] = i.arch]
           /\ issued' = issued \cup {a.entity}
           /\ last' = Call("place", a.entity, <<>>, <<>>, NoneV, TRUE, NoneV)
    /\ UNCHANGED <<components, bundles, cur, freed, spawned, dropped, origin,
                   overflow_checks, world_ids, sparse>>

\* Archetype::remove_entity(row), and ChangedLocation::apply on its result
RemoveEntity(row) ==
    /\ Running /\ InRange(TheArchetype.entities, row)
    /\ \E r \in {Archetype_remove_entity(TheArchetype, row)} :
       \E c \in {ApplyChanged(entities, r.changed, "archetype_row")} :
           /\ archetypes' = [archetypes EXCEPT !.archetypes[1] = r.arch]
           /\ entities' = c.ents
           /\ aborted' = IF r.panic # "" THEN r.panic ELSE c.panic
           /\ last' = Call("remove_entity", At(TheArchetype.entities, row).entity,
                           <<>>, <<>>, r.changed, r.changed.some, NoneV)
    /\ UNCHANGED <<components, bundles, tables, cur, issued, freed, spawned, dropped,
                   origin, overflow_checks, world_ids, sparse>>

\* Table::remove_row(row), and ChangedLocation::apply on its result
RemoveRow(row) ==
    /\ Running /\ InRange(TheTable.entities, row)
    /\ \E r \in {Table_remove_row(TheTable, row)} :
       \E c \in {ApplyChanged(entities, r.changed, "table_row")} :
           /\ tables' = [tables EXCEPT !.tables[1] = r.table]
           /\ entities' = c.ents
           /\ dropped' = dropped \o r.dropped
           /\ aborted' = IF r.panic # "" THEN r.panic ELSE c.panic
           /\ last' = Call("remove_row", At(TheTable.entities, row), <<>>, <<>>,
                           r.changed, r.changed.some, NoneV)
    /\ UNCHANGED <<components, bundles, archetypes, cur, issued, freed, spawned,
                   origin, overflow_checks, world_ids, sparse>>

\* Table::move_row(row, to_table, entity, ..) into a table the caller has
\* just built and keeps for itself, and ChangedLocation::apply on
\* MoveRowResult::swapped; the call record keeps MoveRowResult::to_row.
MoveRow(row) ==
    /\ Running /\ InRange(TheTable.entities, row)
    /\ \E m \in {Table_move_row(TheTable, TableBuilder_build(SparseMap_with_capacity),
                                 row, At(TheTable.entities, row), "panic",
                                 overflow_checks)} :
       \E c \in {ApplyChanged(entities, m.swapped, "table_row")} :
           /\ tables' = [tables EXCEPT !.tables[1] = m.from]
           /\ entities' = c.ents
           /\ dropped' = dropped \o m.dropped
           /\ aborted' = IF m.panic # "" THEN m.panic ELSE c.panic
           /\ last' = Call("move_row", At(TheTable.entities, row), <<>>, <<m.to_row>>,
                           m.swapped, m.swapped.some, NoneV)
    /\ UNCHANGED <<components, bundles, archetypes, cur, issued, freed, spawned,
                   origin, overflow_checks, world_ids, sparse>>

Rows == 0..(MaxEntities - 1)

RowNext ==
    \/ Place
    \/ \E row \in Rows : RemoveEntity(row)
    \/ \E row \in Rows : RemoveRow(row)
    \/ \E row \in Rows : MoveRow(row)

RowSpec == Init /\ [][RowNext]_vars

\* ------------------------------------------ slice_get_mut_pair, on its own

\* slice_get_mut_pair(slice, first, second) on a slice of n elements, with
\* both indices in range (as Tables::get_mut_pair and the archetypes call
\* it); the call record keeps n and the indices asked for, and the indices
\* of the elements handed out.
GetMutPair(n, first, second) ==
    /\ Running
    /\ \E p \in {slice_get_mut_pair(n, first, second)} :
           /\ aborted' = p.panic
           /\ last' = Call("slice_get_mut_pair", Entity_PLACEHOLDER, <<>>,
                           <<n, first, second>>,
                           IF p.panic = "" THEN Some(<<p.first, p.second>>) ELSE NoneV,
                           p.ok, NoneV)
    /\ UNCHANGED <<entities, components, bundles, archetypes, tables, cur, issued,
                   freed, spawned, dropped, origin, overflow_checks, world_ids, sparse>>

PairNext ==
    \E n \in 1..MaxLen : \E first, second \in 0..(n - 1) : GetMutPair(n, first, second)

PairSpec == Init /\ [][PairNext]_vars

\* ------------------------------------------------ the registries alone

\* The component and bundle types registered with the registries of a
\* world: a third component type, and bundle types that declare a
\* component twice, next to each other or not.
RegComponentTypes == ComponentTypes \cup {"C"}
RegBundleTypes ==
    {<<>>, <<"A">>, <<"A", "B">>, <<"B", "A">>, <<"A", "A">>, <<"A", "C", "A">>}

\* components.register::<C>(); the call record keeps the id of the
\* ComponentInfo returned and whether the type was registered before.
Register(C) ==
    /\ Running
    /\ \E c \in {Components_register(components, C)} :
           /\ components' = c
           /\ last' = Call("register", Entity_PLACEHOLDER, <<C>>, <<>>,
                           Components_get_component_id(c, C),
                           Components_get_component_id(components, C).some, NoneV)
    /\ UNCHANGED <<entities, bundles, archetypes, tables, cur, issued, freed,
                   spawned, aborted, dropped, origin, overflow_checks, world_ids, sparse>>

\* bundles.get_mut_or_insert_static::<B>(&mut components); the call record
\* keeps the id of the BundleInfo returned and whether the type was
\* registered before.
RegisterBundle(B) ==
    /\ Running
    /\ B \in DOMAIN bundles.by_type_id \/ Len(bundles.bundle_infos) < MaxBundles
    /\ \E r \in {Bundles_get_mut_or_insert_inner(bundles, components, B)} :
           /\ bundles' = r.bundles
           /\ components' = r.components
           /\ aborted' = r.panic
           /\ last' = Call("register_bundle", Entity_PLACEHOLDER, B, <<>>,
                           IF r.panic = "" THEN Some(r.info.id) ELSE NoneV,
                           B \in DOMAIN bundles.by_type_id, NoneV)
    /\ UNCHANGED <<entities, archetypes, tables, cur, issued, freed, spawned,
                   dropped, origin, overflow_checks, world_ids, sparse>>

RegNext ==
    \/ \E C \in RegComponentTypes : Register(C)
    \/ \E B \in RegBundleTypes : RegisterBundle(B)

RegSpec == Init /\ [][RegNext]_vars

\* ------------------------------------------------------- WorldId::new

\* The worlds created while the model runs.
MaxWorlds == UsizeMax + 3

\* WorldId::new, first half: IDS.fetch_add(1, Relaxed), one atomic step.
FetchAdd(t) ==
    /\ world_ids.threads[t] = ThreadIdle
    /\ Len(world_ids.ids) < MaxWorlds
    /\ \E f \in {AtomicUsize_fetch_add(world_ids.IDS, 1)} :
           world_ids' = [world_ids EXCEPT !.IDS = f.value,
                                          !.threads[t] = ThreadFetched(f.returned)]
    /\ UNCHANGED <<entities, components, bundles, archetypes, tables, cur, issued,
                   freed, spawned, last, aborted, dropped, origin, overflow_checks,
                   sparse>>

\* WorldId::new, second half: NonZeroUsize::new(..).expect("WorldId
\* overflow"); the panic ends the thread, the world is made otherwise.
MakeId(t) ==
    /\ world_ids.threads[t].state = "fetched"
    /\ \E id \in {NonZeroUsize_new(world_ids.threads[t].value)} :
           world_ids' =
               IF id.some
               THEN [world_ids EXCEPT !.ids = Append(@, id.v),
                                      !.threads[t] = ThreadIdle]
               ELSE [world_ids EXCEPT !.threads[t] = ThreadPanicked]
    /\ UNCHANGED <<entities, components, bundles, archetypes, tables, cur, issued,
                   freed, spawned, last, aborted, dropped, origin, overflow_checks,
                   sparse>>

IdNext ==
    \E t \in Threads : FetchAdd(t) \/ MakeId(t)

IdSpec == Init /\ [][IdNext]_vars

\* ------------------------------------------------- SparseMap, on its own

\* A SparseMap owned by its caller.  A call that panics unwinds to the
\* caller, which keeps the map as the call left it.
MapCall(op, key, vals, out, items) ==
    Call(op, Entity_PLACEHOLDER, <<>>, <<key>> \o vals, out, out.some, items)

\* map.insert(&key, value)
MapInsert(key, value) ==
    /\ Running
    /\ \E r \in {SparseMap_insert(sparse.map, key, value)} :
           /\ sparse' = [map |-> r.map, panic |-> r.panic,
                         reference |-> [sparse.reference EXCEPT ![key] = Some(value)]]
           /\ last' = MapCall("map_insert", key, <<value>>, r.old, NoneV)
    /\ UNCHANGED <<entities, components, bundles, archetypes, tables, cur, issued,
                   freed, spawned, aborted, dropped, origin, overflow_checks,
                   world_ids>>

\* map.remove(&key)
MapRemove(key) ==
    /\ Running
    /\ \E r \in {SparseMap_remove(sparse.map, key)} :
           /\ sparse' = [map |-> r.map, panic |-> "",
                         reference |-> [sparse.reference EXCEPT ![key] = NoneV]]
           /\ last' = MapCall("map_remove", key, <<>>, r.old, NoneV)
    /\ UNCHANGED <<entities, components, bundles, archetypes, tables, cur, issued,
                   freed, spawned, aborted, dropped, origin, overflow_checks,
                   world_ids>>

\* map.iter().collect(): the pairs yielded, up to the panic if there is one
MapIter ==
    /\ Running
    /\ \E c \in {Iter_collect(sparse.map.values, Iter_new(sparse.map),
                               overflow_checks, <<>>)} :
           /\ sparse' = [sparse EXCEPT !.panic = c.panic]
           /\ last' = Call("map_iter", Entity_PLACEHOLDER, <<>>, c.items, NoneV,
                           c.underflow, NoneV)
    /\ UNCHANGED <<entities, components, bundles, archetypes, tables, cur, issued,
                   freed, spawned, aborted, dropped, origin, overflow_checks,
                   world_ids>>

MapNext ==
    \/ \E key \in MapKeys : \E value \in Values : MapInsert(key, value)
    \/ \E key \in MapKeys : MapRemove(key)
    \/ MapIter

MapSpec == Init /\ [][MapNext]_vars

\* --------------------------------------------- partition_dedup, on its own

\* The sorted slices of component ids that partition_dedup is given.
SortedSlices ==
    {slice \in UNION {[1..n -> 0..MaxId] : n \in 0..MaxSliceLen} :
        \A i \in 1..(Len(slice) - 1) : slice[i] <= slice[i + 1]}

\* partition_dedup(&mut slice); the call record keeps the slice given and
\* the two parts returned.
Dedup(slice) ==
    /\ Running
    /\ last' = Call("partition_dedup", Entity_PLACEHOLDER, <<>>, slice,
                    Some(partition_dedup(slice)), FALSE, NoneV)
    /\ UNCHANGED <<entities, components, bundles, archetypes, tables, cur, issued,
                   freed, spawned, aborted, dropped, origin, overflow_checks,
                   world_ids, sparse>>

DedupNext == \E slice \in SortedSlices : Dedup(slice)

DedupSpec == Init /\ [][DedupNext]_vars

\* ----------------------------------------------------------- properties

NoDuplicates(B) == \A i, j \in 1..Len(B) : B[i] = B[j] => i = j

Types(B) == {B[i] : i \in 1..Len(B)}

\* A spawn, insert, remove or take of a bundle without duplicate
\* components runs to its end.
OperationCompletes ==
    (last.op \in {"spawn", "insert", "remove", "take"} /\ NoDuplicates(last.bundle))
        => aborted = ""

\* The entities get_location resolves, and where it puts them.
LiveEntities == {e \in issued : Entities_get_location(entities, e).loc.some}

Location(e) == Entities_get_location(entities, e).loc.v

\* The keys a sparse map holds.
PresentKeys(map) == {k \in 0..(Len(map.values) - 1) : At(map.values, k).some}

C5_ArchetypeTableColumns ==
    \A a \in 1..Len(archetypes.archetypes) :
        /\ InRange(tables.tables, archetypes.archetypes[a].table_id)
        /\ PresentKeys(archetypes.archetypes[a].components)
               = PresentKeys(At(tables.tables,
                                archetypes.archetypes[a].table_id).columns)

FreedNeverResolves ==
    \A e \in freed : ~Entities_get_location(entities, e).loc.some

\* C7 (step part): when allocate takes a slot from the free list, the handle
\* it returns has a generation above that of every handle issued before for
\* the same index.
ReuseRaisesGeneration ==
    (/\ entities.free_list # <<>>
     /\ entities'.free_list = Front(entities.free_list)
     /\ entities'.meta = entities.meta
     /\ last'.op = "allocate")
        => \A g \in issued :
               g.index = last'.entity.index
                   => g.generation < last'.entity.generation

\* C7: a reused slot gets a generation strictly greater than that of every
\* handle issued before for its index, and a freed handle never resolves
\* through get_location in any later state.
C7_StaleHandleNeverResolves ==
    [](FreedNeverResolves) /\ [][ReuseRaisesGeneration]_vars

\* C8: spawn runs to its end, and get::<C>() on each spawned entity returns
\* the value it was spawned with, through the handle spawn returned and
\* through World::get_entity.
C8_SpawnThenGet ==
    /\ OperationCompletes
    /\ \A s \in spawned : NoDuplicates(s.bundle) =>
       \A i \in 1..Len(s.bundle) :
           /\ World_get(World, s.entity, s.bundle[i])
                  = [panic |-> "", found |-> TRUE, value |-> Some(s.vals[i])]
           /\ (cur.some /\ cur.v.entity = s.entity)
                  => get_component(cur.v.entity_location, components, tables,
                                   s.bundle[i])
                         = [panic |-> "", value |-> Some(s.vals[i])]

\* C9: spawn(b) runs to its end, and take::<B>() on the entity it made
\* returns Some of the values of b.
C9_SpawnThenTake ==
    /\ OperationCompletes
    /\ (/\ last.op = "take" /\ last.fresh.some
        /\ last.fresh.v.bundle = last.bundle /\ NoDuplicates(last.bundle))
           => last.out = Some(last.fresh.v.vals)

\* C10: remove::<B>() on an entity that has every component of B runs to
\* its end (as does the spawn that gave the entity its components); after
\* it get::<C>() is absent for each C of B and returns the unchanged value
\* for every other component of the entity.
C10_RemoveBundle ==
    /\ OperationCompletes
    /\ (/\ last.op = "remove" /\ last.fresh.some /\ last.bundle # <<>>
        /\ NoDuplicates(last.fresh.v.bundle)
        /\ Types(last.bundle) \subseteq Types(last.fresh.v.bundle))
           => \A i \in 1..Len(last.fresh.v.bundle) :
                  World_get(World, last.entity, last.fresh.v.bundle[i]).value
                      = IF last.fresh.v.bundle[i] \in Types(last.bundle)
                        THEN NoneV
                        ELSE Some(last.fresh.v.vals[i])

\* The entity at location loc has a component of type C: C is registered
\* and its id is one of the components of the entity's archetype.
HasComponent(loc, C) ==
    /\ Components_get_component_id(components, C).some
    /\ InRange(archetypes.archetypes, loc.archetype_id)
    /\ SparseMap_contains_key(At(archetypes.archetypes, loc.archetype_id).components,
                              Components_get_component_id(components, C).v)

\* C11 (state part): insert of a non-empty bundle none of whose components
\* the entity has runs to its end.
InsertOfNewCompletes ==
    (/\ last.op = "insert" /\ last.bundle # <<>> /\ NoDuplicates(last.bundle)
     /\ \A C \in Types(last.bundle) : ~HasComponent(origin, C))
        => aborted = ""

\* C11 (step part): the remove::<B>() that follows such an insert of B runs
\* to its end and puts the entity back into the archetype it was in before
\* the insert.
RemoveAfterInsertRestores ==
    \A B \in BundleTypes :
        (/\ last.op = "insert" /\ last.bundle = B /\ B # <<>> /\ NoDuplicates(B)
         /\ \A C \in Types(B) : ~HasComponent(origin, C)
         /\ Remove(B))
            => /\ aborted' = ""
               /\ cur'.v.entity_location.archetype_id = origin.archetype_id

\* C11: for a non-empty bundle none of whose components the entity has,
\* insert(bundle) followed by remove::<Bundle>() leaves the entity in the
\* archetype it had before the insert.
C11_InsertThenRemove ==
    [](InsertOfNewCompletes) /\ [][RemoveAfterInsertRestores]_vars

\* C12: take::<B>() on an entity that has none of B's components returns
\* None and leaves the entity's location and the tables as they were (so
\* does a second take::<B>() after a first one took B away).
C12_TakeOfAbsent ==
    [][\A B \in BundleTypes :
          (/\ Take(B) /\ NoDuplicates(B)
           /\ \A C \in Types(B) : ~HasComponent(cur.v.entity_location, C))
              => /\ aborted' = "" /\ last'.out = NoneV
                 /\ cur' = cur /\ entities' = entities /\ tables' = tables]_vars

\* The remove_bundle edge the archetype at loc holds for bundle type B.
RemoveEdge(archs, bndls, loc, B) ==
    IF B \in DOMAIN bndls.by_type_id /\ InRange(archs.archetypes, loc.archetype_id)
    THEN SparseMap_get(At(archs.archetypes, loc.archetype_id).edges.remove_bundle,
                       bndls.by_type_id[B])
    ELSE NoneV

\* C13: remove::<B>() and take::<B>() of a non-empty bundle that names a
\* component the entity's archetype does not have cache a Mismatch edge,
\* return nothing and leave the entity's location and the tables unchanged.
C13_MismatchEdge ==
    [][\A op \in {"remove", "take"} : \A B \in BundleTypes :
          (/\ HandleOp(op, B, <<>>) /\ B # <<>> /\ NoDuplicates(B)
           /\ \E C \in Types(B) : ~HasComponent(cur.v.entity_location, C))
              => /\ aborted' = "" /\ last'.out = NoneV
                 /\ cur' = cur /\ entities' = entities /\ tables' = tables
                 /\ RemoveEdge(archetypes', bundles', cur.v.entity_location, B).some
                 /\ ~RemoveEdge(archetypes', bundles', cur.v.entity_location, B).v.match]_vars

\* C14 (step part): insert(bundle) on an entity that already has some of
\* the bundle's components runs to its end; each component that was
\* present keeps its value, each other component of the bundle takes the
\* bundle's value.
InsertKeepsPresent ==
    \A B \in BundleTypes : \A vals \in ValuesOf(B) :
        (/\ Insert(B, vals) /\ NoDuplicates(B)
         /\ \E C \in Types(B) : HasComponent(cur.v.entity_location, C))
            => /\ aborted' = ""
               /\ \A i \in 1..Len(B) :
                      get_component(cur'.v.entity_location, components', tables',
                                    B[i]).value
                          = IF HasComponent(cur.v.entity_location, B[i])
                            THEN get_component(cur.v.entity_location, components,
                                               tables, B[i]).value
                            ELSE Some(vals[i])

C15_InsertEmptyBundle ==
    [][Insert(<<>>, <<>>)
          => /\ aborted' = "" /\ cur' = cur /\ entities' = entities
             /\ archetypes' = archetypes /\ tables' = tables]_vars

\* An insert(()) has returned to its caller.
C15_Witness ==
    last.op = "insert" /\ last.bundle = <<>> /\ aborted = "" /\ cur.some

\* The cells whose drop function runs during the step.
DroppedNow == SubSeq(dropped', Len(dropped) + 1, Len(dropped'))

\* How often cell c occurs in the sequence of cells.
Count(cells, c) == Cardinality({i \in 1..Len(cells) : cells[i] = c})

\* The cell of component type C of the entity at location loc.
CellOf(loc, C) ==
    Cell(Components_get_component_id(components, C).v,
         get_component(loc, components, tables, C).value.v)

\* The number of cells the columns of a table hold.
TableCellCount(table) ==
    LET keys == PresentKeys(table.columns)
        Sum[S \in SUBSET keys] ==
            IF S = {} THEN 0
            ELSE LET k == CHOOSE x \in S : TRUE
                 IN  Len(At(table.columns.values, k).v) + Sum[S \ {k}]
    IN  Sum[keys]

\* The number of cells all columns of all tables hold.
RECURSIVE CellCount(_)
CellCount(tbls) ==
    IF tbls = <<>> THEN 0 ELSE TableCellCount(Head(tbls)) + CellCount(Tail(tbls))

\* C16: the spawn that stores the components runs to its end, and a
\* take::<B>() that returns the value runs the drop function of no cell.
C16_TakeDropsNothing ==
    /\ [](OperationCompletes)
    /\ [][\A B \in BundleTypes :
              (Take(B) /\ last'.out.some) => (aborted' = "" /\ dropped' = dropped)]_vars

\* C17 (step part): remove::<B>() on an entity that has all of B's
\* components runs to its end and, within that call, runs the drop function
\* once on each removed cell and on no other cell.
RemoveDropsRemoved ==
    \A B \in BundleTypes :
        (/\ Remove(B) /\ B # <<>> /\ NoDuplicates(B)
         /\ \A C \in Types(B) : HasComponent(cur.v.entity_location, C))
            => /\ aborted' = ""
               /\ Len(DroppedNow) = Len(B)
               /\ \A C \in Types(B) :
                      Count(DroppedNow, CellOf(cur.v.entity_location, C)) >= 1

\* C17: the spawn that stores the components runs to its end, and a
\* remove::<B>() of components the entity has drops each removed cell
\* exactly once during the call and none of the cells the entity keeps.
C17_RemoveDropsOnce ==
    [](OperationCompletes) /\ [][RemoveDropsRemoved]_vars

\* C18 (step part): a step drops no more cells than leave the columns
\* (spawn and insert, which only add cells, drop none), and dropping the
\* world drops exactly as many cells as the columns hold at that moment.
DropsMatchCells ==
    /\ DropWorld => Len(DroppedNow) = CellCount(tables.tables)
    /\ (last'.op \in {"spawn", "insert"} /\ last' # last) => DroppedNow = <<>>
    /\ (last'.op \in {"remove", "take", "clear_entities"} /\ last' # last)
           => Len(DroppedNow) <= CellCount(tables.tables) - CellCount(tables'.tables)

\* C18: spawn, insert, remove and take run to their end; over any sequence
\* of them, of clear and of the final drop of the world, no cell is dropped
\* more often than it leaves a column, and every cell still in a column
\* when the world is dropped is dropped then.
C18_DropAtMostOnce ==
    [](OperationCompletes) /\ [][DropsMatchCells]_vars

\* C19: spawn(bundle) and insert(bundle) run to their end and run the drop
\* function of no cell, neither of the cells they write nor of the cells
\* they move from the old table to the new one.
C19_InsertDropsNothing ==
    [][\A B \in BundleTypes : \A vals \in ValuesOf(B) :
          ((Spawn(B, vals) \/ Insert(B, vals)) /\ NoDuplicates(B))
              => (aborted' = "" /\ dropped' = dropped)]_vars

\* What Entities stores for entity e.
Meta(ents, e) == At(ents.meta, e.index)

\* The effect of swap-removing row `row` from the list `before` of
\* entities (`after` is the list afterwards, `changed` what the removal
\* reported, `field` the row index it is about): the list is one shorter;
\* for a row before the tail, the tail's entity is now at `row`, it is the
\* one reported, its stored row index is `row`, and no other entity's
\* stored location and no other row of the list has changed; for the tail
\* row nothing is reported and no stored location has changed.
SwapRemoveEffect(before, after, row, changed, field) ==
    /\ aborted' = ""
    /\ Len(after) = Len(before) - 1
    /\ \A i \in 1..Len(after) : i # row + 1 => after[i] = before[i]
    /\ IF row < Len(before) - 1
       THEN /\ At(after, row) = Last(before)
            /\ changed = Some([entity |-> Last(before), changed_value |-> row])
            /\ Meta(entities', Last(before)).location[field] = row
            /\ \A e \in issued \ {Last(before)} :
                   Meta(entities', e) = Meta(entities, e)
       ELSE /\ changed = NoneV
            /\ entities' = entities

\* The entities of an archetype's entity list, row by row.
EntitiesOf(list) == [i \in 1..Len(list) |-> list[i].entity]

\* C20: a swap-remove of a row before the tail, in an archetype's entity
\* list or in a table, rewrites the row index of exactly one other entity,
\* the one that was at the tail, to the vacated row; a swap-remove of the
\* tail row rewrites no entity's row index.
C20_SwapRemoveRewritesOne ==
    [][\A row \in Rows :
          /\ RemoveEntity(row)
                 => SwapRemoveEffect(EntitiesOf(TheArchetype.entities),
                                     EntitiesOf(At(archetypes'.archetypes, 0).entities),
                                     row, last'.out, "archetype_row")
          /\ (RemoveRow(row) \/ MoveRow(row))
                 => SwapRemoveEffect(TheTable.entities,
                                     At(tables'.tables, 0).entities,
                                     row, last'.out, "table_row")]_vars

\* A row before the tail has been swap-removed from a table that held
\* three entities, and from an archetype that held three.
C20_Witness ==
    /\ last.op \in {"remove_row", "move_row", "remove_entity"}
    /\ last.out.some /\ aborted = ""
    /\ Len(TheTable.entities) = 2 /\ Len(TheArchetype.entities) \in {2, 3}
    /\ Cardinality(issued) = 3

\* C21: the entity spawn_empty returns is live at once: World::get_entity
\* with its id returns a handle before any component has been inserted.
C21_SpawnEmptyIsLive ==
    last.op = "spawn_empty"
        => /\ World_get(World, last.entity, "A").panic = ""
           /\ World_get(World, last.entity, "A").found

\* C22: despawn(E) runs to its end; afterwards E does not resolve and is in
\* no row of any archetype or table.
C22_Despawn ==
    last.op = "despawn"
        => /\ aborted = ""
           /\ ~Entities_get_location(entities, last.entity).loc.some
           /\ \A a \in 1..Len(archetypes.archetypes) :
              \A r \in 1..Len(archetypes.archetypes[a].entities) :
                  archetypes.archetypes[a].entities[r].entity # last.entity
           /\ \A t \in 1..Len(tables.tables) :
              \A r \in 1..Len(tables.tables[t].entities) :
                  tables.tables[t].entities[r] # last.entity

\* C25 (state part): the empty archetype is archetype 0, the empty table is
\* table 0, and every archetype's table_id names an existing table.
EmptyArchetypeAndTableExist ==
    /\ Len(archetypes.archetypes) >= 1
    /\ PresentKeys(At(archetypes.archetypes, 0).components) = {}
    /\ Len(tables.tables) >= 1
    /\ PresentKeys(At(tables.tables, 0).columns) = {}
    /\ \A a \in 1..Len(archetypes.archetypes) :
           InRange(tables.tables, archetypes.archetypes[a].table_id)

\* C25 (step part): no step destroys an archetype or a table: each keeps
\* its id and its component ids.
NeverDestroyed ==
    /\ Len(archetypes'.archetypes) >= Len(archetypes.archetypes)
    /\ \A a \in 1..Len(archetypes.archetypes) :
           PresentKeys(archetypes'.archetypes[a].components)
               = PresentKeys(archetypes.archetypes[a].components)
    /\ Len(tables'.tables) >= Len(tables.tables)
    /\ \A t \in 1..Len(tables.tables) :
           PresentKeys(tables'.tables[t].columns) = PresentKeys(tables.tables[t].columns)

\* C25: in every reachable state, also after clear_entities and clear_all,
\* the empty archetype and the empty table exist at id 0 and every
\* archetype and table ever created still exists at its id.
C25_NeverDestroyed ==
    [](EmptyArchetypeAndTableExist) /\ [][NeverDestroyed]_vars

\* The handle's index names a slot and the slot stores the handle's
\* generation.
GenerationMatches(ents, entity) ==
    /\ InRange(ents.meta, entity.index)
    /\ Meta(ents, entity).generation = entity.generation

\* C23: get_location never aborts; it returns a location exactly when the
\* handle's index is in range and its generation is the one stored for the
\* index, and returns absent for every other handle, be its generation
\* older or newer than the stored one.
C23_StaleHandleIsAbsent ==
    last.op = "get_location"
        => /\ aborted = ""
           /\ last.found <=> GenerationMatches(entities, last.entity)

\* The handle has been freed, or a later generation of its index has been
\* issued.
Stale(entity) ==
    \/ entity \in freed
    \/ \E g \in issued : g.index = entity.index /\ g.generation > entity.generation

\* C26: set_location with a stale handle writes nothing: the slot keeps its
\* stored generation and location.
C26_SetLocationOnlyWhenLive ==
    [][\A entity \in issued : \A location \in Locations :
          (SetLocation(entity, location) /\ Stale(entity))
              => (aborted' = "" => entities' = entities)]_vars

\* C30: move_row reports as destination row the index at which the entity
\* was appended to the destination table, which is the destination's
\* entity count before the call: 0 for a destination that was empty,
\* whatever the number of entities in the source table.
C30_MoveRowDestinationRow ==
    last.op = "move_row" => last.vals = <<0>>

\* C29: for two distinct indices in range, in either order,
\* slice_get_mut_pair returns the pair of the elements at first and at
\* second; it returns the single element exactly when first = second.
C29_GetMutPair ==
    last.op = "slice_get_mut_pair"
        => /\ aborted = ""
           /\ last.found <=> last.vals[2] # last.vals[3]
           /\ last.out = Some(<<last.vals[2], last.vals[3]>>)

\* C24: registering a bundle type that declares a component type more than
\* once aborts and leaves the bundle registry as it was; registering a
\* bundle type whose component types are pairwise distinct does not abort.
C24_DuplicateComponents ==
    [][\A B \in RegBundleTypes :
          RegisterBundle(B)
              => IF NoDuplicates(B)
                 THEN aborted' = ""
                 ELSE aborted' # "" /\ bundles' = bundles]_vars

C24_Witness ==
    /\ last.op = "register_bundle"
    /\ last.bundle = <<"A", "C", "A">>
    /\ aborted = "Bundle contains duplicate components"
    /\ Len(bundles.bundle_infos) = 2

\* The registries hold one entry per registered type, and the entry at
\* position k has id k.
OneEntryPerType ==
    /\ NoDuplicates(components)
    /\ \A k \in 1..Len(bundles.bundle_infos) : bundles.bundle_infos[k].id = k - 1
    /\ Cardinality(DOMAIN bundles.by_type_id) = Len(bundles.bundle_infos)
    /\ \A B1, B2 \in DOMAIN bundles.by_type_id :
           bundles.by_type_id[B1] = bundles.by_type_id[B2] => B1 = B2

\* A registration of a known type changes no registry and returns the id
\* the type already has; a registration of a new type returns the number
\* of entries there were and adds one entry.
RegistrationStep ==
    /\ \A C \in RegComponentTypes :
           Register(C)
               => IF Components_get_component_id(components, C).some
                  THEN /\ components' = components
                       /\ last'.out = Components_get_component_id(components, C)
                  ELSE /\ Len(components') = Len(components) + 1
                       /\ last'.out = Some(Len(components))
    /\ \A B \in RegBundleTypes :
           (RegisterBundle(B) /\ aborted' = "")
               => IF B \in DOMAIN bundles.by_type_id
                  THEN /\ bundles' = bundles /\ components' = components
                       /\ last'.out = Some(bundles.by_type_id[B])
                  ELSE /\ Len(bundles'.bundle_infos) = Len(bundles.bundle_infos) + 1
                       /\ last'.out = Some(Len(bundles.bundle_infos))
                       /\ \A i \in 1..Len(components) : components'[i] = components[i]

\* C27: registration is idempotent in both registries: the same type always
\* gets the same id and one entry, distinct types get distinct ids, and the
\* ids are 0, 1, 2, ... in the order of first registration.
C27_RegistrationIdempotent ==
    [](OneEntryPerType) /\ [][RegistrationStep]_vars

C27_Witness ==
    /\ last.op = "register_bundle" /\ last.found /\ last.out = Some(0)
    /\ Len(bundles.bundle_infos) = MaxBundles
    /\ Len(components) = 3

\* C28: any two worlds created in the process, from whatever threads, have
\* distinct non-zero WorldIds, and every fetch of the counter leaves the
\* counter above the value it handed out.
C28_WorldIdsUnique ==
    /\ [](/\ NoDuplicates(world_ids.ids)
          /\ \A i \in 1..Len(world_ids.ids) : world_ids.ids[i] # 0)
    /\ [][\A t \in Threads :
             FetchAdd(t) => world_ids'.IDS > world_ids'.threads[t].value]_vars

\* C34: after any sequence of insert and remove, with keys of any index, the
\* SparseMap agrees with the reference map: no call has panicked, get(k) is
\* the value last inserted for k and not removed since, and len() is the
\* number of present keys.
C34_AgreesWithReference ==
    last.op \in {"map_insert", "map_remove"}
        => /\ sparse.panic = ""
           /\ \A k \in MapKeys : SparseMap_get(sparse.map, k) = sparse.reference[k]
           /\ sparse.map.len = Cardinality({k \in MapKeys : sparse.reference[k].some})

\* The pairs of a map in ascending index order.
PairsOf(map) ==
    SelectSeq([i \in 1..Len(map.values) |->
                  <<i - 1, IF map.values[i].some THEN map.values[i].v ELSE 0>>],
              LAMBDA pair : At(map.values, pair[1]).some)

\* C35: iterating a SparseMap yields every present entry once, in ascending
\* index order, and ends, also with absent slots below present ones; the
\* remaining-length counter never goes below zero.
C35_IterationYieldsAll ==
    last.op = "map_iter"
        => /\ sparse.panic = ""
           /\ last.vals = PairsOf(sparse.map)
           /\ ~last.found

\* The number of times a value occurs in a slice.
Occurrences(slice, x) == Cardinality({i \in 1..Len(slice) : slice[i] = x})

\* C36: for a sorted slice, partition_dedup returns a left part with every
\* distinct value once, in ascending order, and a right part with the
\* surplus duplicates; the two parts together are a permutation of the
\* input, and the right part is empty exactly when no value is repeated.
C36_PartitionDedup ==
    last.op = "partition_dedup"
        => LET input == last.vals
               left == last.out.v.left
               right == last.out.v.right
           IN  /\ \A i \in 1..(Len(left) - 1) : left[i] < left[i + 1]
               /\ Types(left) = Types(input)
               /\ \A x \in 0..MaxId :
                      Occurrences(left \o right, x) = Occurrences(input, x)
               /\ right = <<>> <=> NoDuplicates(input)

C36_Witness ==
    /\ last.op = "partition_dedup"
    /\ last.vals = <<0, 1, 1, 2, 2>>
    /\ last.out.v = [left |-> <<0, 1, 2>>, right |-> <<1, 2>>]

\* The bundle declares its components in an order that is not the
\* ascending order of their ids.
DeclaredOutOfOrder(B) ==
    \E i, j \in 1..Len(B) :
        /\ i < j
        /\ Components_get_component_id(components, B[i]).some
        /\ Components_get_component_id(components, B[j]).some
        /\ Components_get_component_id(components, B[i]).v
               > Components_get_component_id(components, B[j]).v

\* C31: when a bundle declares its components in an order that differs from
\* the ascending order of their ids, a spawn or insert of it completes and
\* every component is then read back, under its own type, with the value
\* the bundle gave it.
C31_DeclaredOrder ==
    (/\ last.op \in {"spawn", "insert"}
     /\ NoDuplicates(last.bundle)
     /\ DeclaredOutOfOrder(last.bundle))
        => /\ aborted = ""
           /\ \A i \in 1..Len(last.bundle) :
                  World_get(World, last.entity, last.bundle[i]).value
                      = Some(last.vals[i])

\* A spawn or spawn_empty is the first call after clear_entities.
SpawnAfterClear ==
    /\ last.op = "clear_entities"
    /\ SpawnEmpty \/ \E B \in BundleTypes : \E vals \in ValuesOf(B) : Spawn(B, vals)

\* get_entity(entity) returns None, without aborting.
Absent(ents, entity) ==
    /\ Entities_get_location(ents, entity).panic = ""
    /\ ~Entities_get_location(ents, entity).loc.some

\* C39: after clear_entities no handle issued before it resolves, get_entity
\* returning None for each without aborting, also after a new entity has
\* been spawned; and the handle a spawn after the clear returns is equal to
\* none of the handles issued before the clear.
C39_ClearInvalidatesHandles ==
    /\ [](last.op = "clear_entities" => \A e \in issued : Absent(entities, e))
    /\ [][SpawnAfterClear
              => /\ last'.entity \notin issued
                 /\ \A e \in issued : Absent(entities', e)]_vars

\* C40: after clear_entities the entity list of every archetype and of
\* every table is empty, and a spawn that follows runs to its end and
\* leaves the new entity live, at a location whose archetype and table
\* exist.
C40_ClearEmptiesRows ==
    /\ [](last.op = "clear_entities"
            => /\ \A a \in 1..Len(archetypes.archetypes) :
                      archetypes.archetypes[a].entities = <<>>
               /\ \A t \in 1..Len(tables.tables) :
                      tables.tables[t].entities = <<>>)
    /\ [][SpawnAfterClear
              => /\ aborted' = ""
                 /\ Entities_get_location(entities', last'.entity).loc.some
                 /\ InRange(archetypes'.archetypes,
                            Entities_get_location(entities', last'.entity).loc.v.archetype_id)
                 /\ InRange(tables'.tables,
                            Entities_get_location(entities', last'.entity).loc.v.table_id)]_vars

\* The add_bundle edge the archetype at loc holds for bundle type B.
AddEdge(archs, bndls, loc, B) ==
    IF B \in DOMAIN bndls.by_type_id /\ InRange(archs.archetypes, loc.archetype_id)
    THEN SparseMap_get(At(archs.archetypes, loc.archetype_id).edges.add_bundle,
                       bndls.by_type_id[B])
    ELSE NoneV

\* The component ids of the bundle with id b.
BundleComponents(b) ==
    {At(bundles.bundle_infos, b).component_ids[i] :
        i \in 1..Len(At(bundles.bundle_infos, b).component_ids)}

\* C32 (state part): the target of every cached AddBundle edge has the
\* components of its source and of the bundle, and the edge's duplicate set
\* is what source and bundle have in common.
AddEdgesSound ==
    \A a \in 1..Len(archetypes.archetypes) :
    \A b \in PresentKeys(archetypes.archetypes[a].edges.add_bundle) :
        LET from == archetypes.archetypes[a]
            edge == At(from.edges.add_bundle.values, b).v
        IN  /\ InRange(archetypes.archetypes, edge.archetype_id)
            /\ PresentKeys(At(archetypes.archetypes, edge.archetype_id).components)
                   = PresentKeys(from.components) \cup BundleComponents(b)
            /\ PresentKeys(edge.duplicate)
                   = PresentKeys(from.components) \cap BundleComponents(b)

\* C32 (step part): add_bundle for a non-empty bundle, as insert calls it,
\* runs to its end and leaves the edge cached; when the edge was cached
\* before, the edge is as it was and no archetype and no table is created.
AddBundleCachesEdge ==
    \A B \in BundleTypes : \A vals \in ValuesOf(B) :
        (HandleOp("insert", B, vals) /\ B # <<>> /\ NoDuplicates(B))
            => /\ aborted' = ""
               /\ AddEdge(archetypes', bundles', cur.v.entity_location, B).some
               /\ AddEdge(archetypes, bundles, cur.v.entity_location, B).some
                      => /\ AddEdge(archetypes', bundles', cur.v.entity_location, B)
                                = AddEdge(archetypes, bundles, cur.v.entity_location, B)
                         /\ Len(archetypes'.archetypes) = Len(archetypes.archetypes)
                         /\ Len(tables'.tables) = Len(tables.tables)

MatchEdgesSound ==
    \A a \in 1..Len(archetypes.archetypes) :
    \A b \in PresentKeys(archetypes.archetypes[a].edges.remove_bundle) :
        LET from == archetypes.archetypes[a]
            edge == At(from.edges.remove_bundle.values, b).v
        IN  edge.match
                => /\ BundleComponents(b) \subseteq PresentKeys(from.components)
                   /\ InRange(archetypes.archetypes, edge.archetype_id)
                   /\ PresentKeys(At(archetypes.archetypes, edge.archetype_id).components)
                          = PresentKeys(from.components) \ BundleComponents(b)

\* C33 (step part): remove_bundle for a non-empty bundle, as remove and
\* take call it, runs to its end and leaves an edge cached.
RemoveBundleCachesEdge ==
    \A op \in {"remove", "take"} : \A B \in BundleTypes :
        (HandleOp(op, B, <<>>) /\ B # <<>> /\ NoDuplicates(B))
            => /\ aborted' = ""
               /\ RemoveEdge(archetypes', bundles', cur.v.entity_location, B).some

AddEdgeTargetHasSourceColumns ==
    \A a \in 1..Len(archetypes.archetypes) :
    \A b \in PresentKeys(archetypes.archetypes[a].edges.add_bundle) :
        LET from == archetypes.archetypes[a]
            to == At(archetypes.archetypes,
                     At(from.edges.add_bundle.values, b).v.archetype_id)
        IN  /\ InRange(tables.tables, from.table_id)
            /\ InRange(tables.tables, to.table_id)
            /\ PresentKeys(At(tables.tables, from.table_id).columns)
                   \subseteq PresentKeys(At(tables.tables, to.table_id).columns)

====
